---- MODULE Spec2Model ----
(***************************************************************************)
(* The 8085 simulator: the CPU8085 engine (registers, flags, memory, I/O   *)
(* ports, halted; reset / getState / writeByte / step) and the App driver  *)
(* that feeds it (keypad, EXEC STEP, RESET, STOP, the run timer).          *)
(***************************************************************************)
EXTENDS Integers, Sequences, FiniteSets, TLC

VARIABLES
    cpu,                \* the CPU8085 instance, a record of its fields:
                        \*   registers : A B C D E H L SP PC
                        \*   flags     : S Z AC P CY
                        \*   memory    : Uint8Array(65536), kept as its non-zero cells
                        \*   halted
                        \*   ioPorts   : Uint8Array(256), kept as its non-zero cells
    cpuState,           \* the last snapshot returned by getState()
    mode,               \* App: InteractionMode
    inputBuffer,        \* App: string of hex digits typed so far
    currentExamAddress, \* App: address under examination
    isRunning,          \* App: a continuous run is active
    runIntervalRef,     \* App: the interval timer is armed
    op,                 \* history: the operation that produced this state
    steps,              \* history: number of step() calls made so far
    writes,             \* history: number of external writeByte() calls made so far
    failStop            \* history: a step() took the default branch of the switch and
                        \*          reset() has not been called since

appVars == <<mode, inputBuffer, currentExamAddress, isRunning, runIntervalRef>>
vars == <<cpu, cpuState, mode, inputBuffer, currentExamAddress, isRunning,
          runIntervalRef, op, steps, writes, failStop>>

(***************************************************************************)
(* JavaScript integer operators.  Operands are two's-complement words; the *)
(* model keeps 30 bits of them, which is exact for every operand whose     *)
(* magnitude is below 2^29.                                                *)
(***************************************************************************)
WordModulus == 2^30

ToWord(x) == x % WordModulus

ToSigned(w) == IF w >= WordModulus \div 2 THEN w - WordModulus ELSE w

RECURSIVE AndBits(_, _)
AndBits(a, b) ==
    IF a = 0 \/ b = 0 THEN 0
    ELSE (IF a % 2 = 1 /\ b % 2 = 1 THEN 1 ELSE 0) + 2 * AndBits(a \div 2, b \div 2)

RECURSIVE OrBits(_, _)
OrBits(a, b) ==
    IF a = 0 THEN b
    ELSE IF b = 0 THEN a
    ELSE (IF a % 2 = 1 \/ b % 2 = 1 THEN 1 ELSE 0) + 2 * OrBits(a \div 2, b \div 2)

RECURSIVE XorBits(_, _)
XorBits(a, b) ==
    IF a = 0 THEN b
    ELSE IF b = 0 THEN a
    ELSE (IF (a % 2) # (b % 2) THEN 1 ELSE 0) + 2 * XorBits(a \div 2, b \div 2)

\* a & b
And(a, b) == ToSigned(AndBits(ToWord(a), ToWord(b)))

\* a | b
Or(a, b) == ToSigned(OrBits(ToWord(a), ToWord(b)))

\* a ^ b
Xor(a, b) == ToSigned(XorBits(ToWord(a), ToWord(b)))

\* ~a
Not(a) == -a - 1

\* a << n
Shl(a, n) == ToSigned(ToWord(a * 2^n))

\* a >> n (sign-propagating)
Shr(a, n) == a \div 2^n

(***************************************************************************)
(* Typed arrays: a Uint8Array is zero-filled at construction; the model    *)
(* keeps the cells that hold a non-zero byte, so equal arrays are equal    *)
(* values.                                                                 *)
(***************************************************************************)
MemorySize == 65536

IoPortsSize == 256

EmptyArray == [x \in {} |-> 0]

\* arr[index], for an index inside the array
ArrayGet(arr, index) == IF index \in DOMAIN arr THEN arr[index] ELSE 0

\* arr[index] = value: a Uint8Array cell keeps the low 8 bits of what is stored
ArrayPut(arr, index, value) ==
    LET byte == ToWord(value) % 256
    IN  IF byte = 0 THEN [x \in (DOMAIN arr) \ {index} |-> arr[x]]
        ELSE [x \in (DOMAIN arr) \cup {index} |-> IF x = index THEN byte ELSE arr[x]]

(***************************************************************************)
(* CPU8085.  An operator's first parameter, this, is the processor record  *)
(* [registers, flags, memory, halted, ioPorts]; a method that mutates the  *)
(* processor returns the mutated record.                                   *)
(***************************************************************************)
\* reset() without the assignment to halted
resetKeepingHalted(this) ==
    [this EXCEPT
        !.registers = [A |-> 0, B |-> 0, C |-> 0, D |-> 0, E |-> 0, H |-> 0, L |-> 0,
                       SP |-> \hFFFE, PC |-> 0],
        !.flags = [S |-> FALSE, Z |-> TRUE, AC |-> FALSE, P |-> TRUE, CY |-> FALSE]]

\* reset() with the commented-out this.memory.fill(0) in force
resetClearingMemory(this) ==
    [this EXCEPT
        !.registers = [A |-> 0, B |-> 0, C |-> 0, D |-> 0, E |-> 0, H |-> 0, L |-> 0,
                       SP |-> \hFFFE, PC |-> 0],
        !.flags = [S |-> FALSE, Z |-> TRUE, AC |-> FALSE, P |-> TRUE, CY |-> FALSE],
        !.memory = EmptyArray,
        !.halted = FALSE]

reset(this) ==
    [this EXCEPT
        !.registers = [A |-> 0, B |-> 0, C |-> 0, D |-> 0, E |-> 0, H |-> 0, L |-> 0,
                       SP |-> \hFFFE, PC |-> 0],
        !.flags = [S |-> FALSE, Z |-> TRUE, AC |-> FALSE, P |-> TRUE, CY |-> FALSE],
        !.halted = FALSE]

\* constructor: zero-filled memory and ports, then reset()
NewCPU8085 ==
    reset([registers |-> [A |-> 0, B |-> 0, C |-> 0, D |-> 0, E |-> 0, H |-> 0, L |-> 0,
                          SP |-> 0, PC |-> 0],
           flags |-> [S |-> FALSE, Z |-> FALSE, AC |-> FALSE, P |-> FALSE, CY |-> FALSE],
           memory |-> EmptyArray,
           halted |-> FALSE,
           ioPorts |-> EmptyArray])

readByte(this, address) == ArrayGet(this.memory, And(address, \hFFFF))

\* writeByte() keeping eight bits of the address
writeByteNarrowAddress(this, address, value) ==
    [this EXCEPT !.memory = ArrayPut(@, And(address, \hFF), And(value, \hFF))]

writeByte(this, address, value) ==
    [this EXCEPT !.memory = ArrayPut(@, And(address, \hFFFF), And(value, \hFF))]

\* readWord indexing memory with address + 1 unmasked: past the end of the
\* array the high byte reads as 0
readWordWithoutWrap(this, address) ==
    LET low == readByte(this, address)
        high == IF address + 1 > \hFFFF THEN 0 ELSE readByte(this, address + 1)
    IN  Or(Shl(high, 8), low)

readWord(this, address) ==
    LET low == readByte(this, address)
        high == readByte(this, address + 1)
    IN  Or(Shl(high, 8), low)

writeWord(this, address, value) ==
    writeByte(writeByte(this, address, And(value, \hFF)),
              address + 1, And(Shr(value, 8), \hFF))

getHL(this) == Or(Shl(this.registers.H, 8), this.registers.L)

setHL(this, value) ==
    [this EXCEPT !.registers.H = And(Shr(value, 8), \hFF), !.registers.L = And(value, \hFF)]

getBC(this) == Or(Shl(this.registers.B, 8), this.registers.C)

setBC(this, value) ==
    [this EXCEPT !.registers.B = And(Shr(value, 8), \hFF), !.registers.C = And(value, \hFF)]

getDE(this) == Or(Shl(this.registers.D, 8), this.registers.E)

setDE(this, value) ==
    [this EXCEPT !.registers.D = And(Shr(value, 8), \hFF), !.registers.E = And(value, \hFF)]

RECURSIVE parityCount(_, _)
parityCount(val, i) ==
    IF i >= 8 THEN 0
    ELSE (IF And(Shr(val, i), 1) # 0 THEN 1 ELSE 0) + parityCount(val, i + 1)

updateZSPFlags(this, value) ==
    LET val == And(value, \hFF)
    IN  [this EXCEPT !.flags.S = (And(val, \h80) # 0),
                     !.flags.Z = (val = 0),
                     !.flags.P = (parityCount(val, 0) % 2 = 0)]

\* add8bit returns [cpu |-> the processor with its flags set, result |-> the byte]
\* add8bit computing Auxiliary-Carry without the incoming carry
add8bitHalfCarryWithoutCarryIn(this, val1, val2, carryIn) ==
    LET c == IF carryIn THEN 1 ELSE 0
        unmaskedResult == And(val1, \hFF) + And(val2, \hFF) + c
        result == And(unmaskedResult, \hFF)
        withCYAC == [this EXCEPT
            !.flags.CY = (unmaskedResult > \hFF),
            !.flags.AC = (And(And(val1, \h0F) + And(val2, \h0F), \h10) # 0)]
    IN  [cpu |-> updateZSPFlags(withCYAC, result), result |-> result]

add8bit(this, val1, val2, carryIn) ==
    LET c == IF carryIn THEN 1 ELSE 0
        unmaskedResult == And(val1, \hFF) + And(val2, \hFF) + c
        result == And(unmaskedResult, \hFF)
        withCYAC == [this EXCEPT
            !.flags.CY = (unmaskedResult > \hFF),
            !.flags.AC = (And(And(val1, \h0F) + And(val2, \h0F) + c, \h10) # 0)]
    IN  [cpu |-> updateZSPFlags(withCYAC, result), result |-> result]

\* sub8bit computing AC without the borrow in
sub8bitHalfBorrowWithoutBorrowIn(this, val1, val2, borrowIn) ==
    LET b == IF borrowIn THEN 1 ELSE 0
        unmaskedResult == And(val1, \hFF) - And(val2, \hFF) - b
        result == And(unmaskedResult, \hFF)
        withCYAC == [this EXCEPT
            !.flags.CY = (unmaskedResult < 0),
            !.flags.AC = (And(And(val1, \h0F) - And(val2, \h0F), \h10) # 0)]
    IN  [cpu |-> updateZSPFlags(withCYAC, result), result |-> result]

sub8bit(this, val1, val2, borrowIn) ==
    LET b == IF borrowIn THEN 1 ELSE 0
        unmaskedResult == And(val1, \hFF) - And(val2, \hFF) - b
        result == And(unmaskedResult, \hFF)
        withCYAC == [this EXCEPT
            !.flags.CY = (unmaskedResult < 0),
            !.flags.AC = (And(And(val1, \h0F) - And(val2, \h0F) - b, \h10) # 0)]
    IN  [cpu |-> updateZSPFlags(withCYAC, result), result |-> result]

\* dad also setting Zero from the 16-bit result
dadSettingZero(this, val) ==
    LET hl == getHL(this)
        result == hl + val
    IN  setHL([this EXCEPT !.flags.CY = (result > \hFFFF),
                           !.flags.Z = (And(result, \hFFFF) = 0)], And(result, \hFFFF))

dad(this, val) ==
    LET hl == getHL(this)
        result == hl + val
    IN  setHL([this EXCEPT !.flags.CY = (result > \hFFFF)], And(result, \hFFFF))

\* pushWord writing the low byte first
pushWordLowByteFirst(this, value) ==
    LET sp1 == And(this.registers.SP - 1, \hFFFF)
        s1 == writeByte([this EXCEPT !.registers.SP = sp1], sp1, And(value, \hFF))
        sp2 == And(sp1 - 1, \hFFFF)
    IN  writeByte([s1 EXCEPT !.registers.SP = sp2], sp2, And(Shr(value, 8), \hFF))

pushWord(this, value) ==
    LET sp1 == And(this.registers.SP - 1, \hFFFF)
        s1 == writeByte([this EXCEPT !.registers.SP = sp1], sp1, And(Shr(value, 8), \hFF))
        sp2 == And(sp1 - 1, \hFFFF)
    IN  writeByte([s1 EXCEPT !.registers.SP = sp2], sp2, And(value, \hFF))

\* popWord advancing SP once
popWordSingleIncrement(this) ==
    LET low == readByte(this, this.registers.SP)
        sp1 == And(this.registers.SP + 1, \hFFFF)
        high == readByte(this, sp1)
    IN  [cpu |-> [this EXCEPT !.registers.SP = sp1], result |-> Or(Shl(high, 8), low)]

\* popWord returns [cpu |-> the processor with SP advanced, result |-> the word]
popWord(this) ==
    LET low == readByte(this, this.registers.SP)
        sp1 == And(this.registers.SP + 1, \hFFFF)
        high == readByte(this, sp1)
        sp2 == And(sp1 + 1, \hFFFF)
    IN  [cpu |-> [this EXCEPT !.registers.SP = sp2], result |-> Or(Shl(high, 8), low)]

\* getPSW without pswFlags |= 0x02
getPSWWithoutFixedBit(this) ==
    LET b7 == IF this.flags.S THEN \h80 ELSE 0
        b6 == IF this.flags.Z THEN \h40 ELSE 0
        b4 == IF this.flags.AC THEN \h10 ELSE 0
        b2 == IF this.flags.P THEN \h04 ELSE 0
        b0 == IF this.flags.CY THEN 1 ELSE 0
        pswFlags == Or(Or(Or(Or(Or(0, b7), b6), b4), b2), b0)
    IN  Or(Shl(this.registers.A, 8), pswFlags)

getPSW(this) ==
    LET b7 == IF this.flags.S THEN \h80 ELSE 0
        b6 == IF this.flags.Z THEN \h40 ELSE 0
        b4 == IF this.flags.AC THEN \h10 ELSE 0
        b2 == IF this.flags.P THEN \h04 ELSE 0
        b0 == IF this.flags.CY THEN 1 ELSE 0
        pswFlags == Or(Or(Or(Or(Or(Or(0, b7), b6), b4), b2), 2), b0)
    IN  Or(Shl(this.registers.A, 8), pswFlags)

\* setPSW taking Parity from bit 3 instead of bit 2
setPSWParityFromBit3(this, value) ==
    LET pswFlags == And(value, \hFF)
    IN  [this EXCEPT !.registers.A = And(Shr(value, 8), \hFF),
                     !.flags.S = (And(pswFlags, \h80) # 0),
                     !.flags.Z = (And(pswFlags, \h40) # 0),
                     !.flags.AC = (And(pswFlags, \h10) # 0),
                     !.flags.P = (And(pswFlags, \h08) # 0),
                     !.flags.CY = (And(pswFlags, 1) # 0)]

setPSW(this, value) ==
    LET pswFlags == And(value, \hFF)
    IN  [this EXCEPT !.registers.A = And(Shr(value, 8), \hFF),
                     !.flags.S = (And(pswFlags, \h80) # 0),
                     !.flags.Z = (And(pswFlags, \h40) # 0),
                     !.flags.AC = (And(pswFlags, \h10) # 0),
                     !.flags.P = (And(pswFlags, \h04) # 0),
                     !.flags.CY = (And(pswFlags, 1) # 0)]

(***************************************************************************)
(* executeInstruction: one operator per group of case labels.  A register  *)
(* operand is named as in the case's comment; "M" is the byte at HL.       *)
(***************************************************************************)
RegNames == <<"B", "C", "D", "E", "H", "L", "M", "A">>

\* this.registers.r, or this.readByte(this.getHL()) for M
getOperand(this, r) ==
    IF r = "M" THEN readByte(this, getHL(this)) ELSE this.registers[r]

\* this.registers.r = value, or this.writeByte(this.getHL(), value) for M
setOperand(this, r, value) ==
    IF r = "M" THEN writeByte(this, getHL(this), value)
    ELSE [this EXCEPT !.registers[r] = value]

\* this.registers.PC = (this.registers.PC + n) & 0xFFFF
advancePC(this, n) == [this EXCEPT !.registers.PC = And(@ + n, \hFFFF)]

opLXI(this, rp) ==
    LET tempVal == readWord(this, this.registers.PC)
    IN  advancePC(CASE rp = "B" -> setBC(this, tempVal)
                    [] rp = "D" -> setDE(this, tempVal)
                    [] rp = "H" -> setHL(this, tempVal)
                    [] rp = "SP" -> [this EXCEPT !.registers.SP = tempVal], 2)

opSTA(this) ==
    LET tempAddr == readWord(this, this.registers.PC)
    IN  advancePC(writeByte(this, tempAddr, this.registers.A), 2)

opLDA(this) ==
    LET tempAddr == readWord(this, this.registers.PC)
    IN  advancePC([this EXCEPT !.registers.A = readByte(this, tempAddr)], 2)

\* MVI without the PC increment past its operand
opMVIWithoutOperandSkip(this, r) ==
    setOperand(this, r, readByte(this, this.registers.PC))

opMVI(this, r) ==
    advancePC(setOperand(this, r, readByte(this, this.registers.PC)), 1)

opMOV(this, d, r) == IF d = r THEN this ELSE setOperand(this, d, getOperand(this, r))

opHLT(this) == [this EXCEPT !.halted = TRUE]

opADD(this, r) ==
    LET res == add8bit(this, this.registers.A, getOperand(this, r), FALSE)
    IN  [res.cpu EXCEPT !.registers.A = res.result]

opADC(this, r) ==
    LET res == add8bit(this, this.registers.A, getOperand(this, r), this.flags.CY)
    IN  [res.cpu EXCEPT !.registers.A = res.result]

opSUB(this, r) ==
    LET res == sub8bit(this, this.registers.A, getOperand(this, r), FALSE)
    IN  [res.cpu EXCEPT !.registers.A = res.result]

opSBB(this, r) ==
    LET res == sub8bit(this, this.registers.A, getOperand(this, r), this.flags.CY)
    IN  [res.cpu EXCEPT !.registers.A = res.result]

\* INR without the restore of Carry
opINRKeepingCarryOut(this, r) ==
    LET res == add8bit(this, getOperand(this, r), 1, FALSE)
    IN  setOperand(res.cpu, r, res.result)

opINR(this, r) ==
    LET oldCY == this.flags.CY
        res == add8bit(this, getOperand(this, r), 1, FALSE)
        stored == setOperand(res.cpu, r, res.result)
    IN  [stored EXCEPT !.flags.CY = oldCY]

\* DCR without the restore of Carry
opDCRKeepingBorrowOut(this, r) ==
    LET res == sub8bit(this, getOperand(this, r), 1, FALSE)
    IN  setOperand(res.cpu, r, res.result)

opDCR(this, r) ==
    LET oldCY == this.flags.CY
        res == sub8bit(this, getOperand(this, r), 1, FALSE)
        stored == setOperand(res.cpu, r, res.result)
    IN  [stored EXCEPT !.flags.CY = oldCY]

opADI(this) ==
    LET tempVal == readByte(this, this.registers.PC)
        res == add8bit(this, this.registers.A, tempVal, FALSE)
    IN  advancePC([res.cpu EXCEPT !.registers.A = res.result], 1)

opACI(this) ==
    LET tempVal == readByte(this, this.registers.PC)
        res == add8bit(this, this.registers.A, tempVal, this.flags.CY)
    IN  advancePC([res.cpu EXCEPT !.registers.A = res.result], 1)

opSUI(this) ==
    LET tempVal == readByte(this, this.registers.PC)
        res == sub8bit(this, this.registers.A, tempVal, FALSE)
    IN  advancePC([res.cpu EXCEPT !.registers.A = res.result], 1)

opSBI(this) ==
    LET tempVal == readByte(this, this.registers.PC)
        res == sub8bit(this, this.registers.A, tempVal, this.flags.CY)
    IN  advancePC([res.cpu EXCEPT !.registers.A = res.result], 1)

\* the condition of a conditional jump, call or return, by its mnemonic suffix
condition(this, cc) ==
    CASE cc = "NZ" -> ~this.flags.Z
      [] cc = "Z" -> this.flags.Z
      [] cc = "NC" -> ~this.flags.CY
      [] cc = "C" -> this.flags.CY
      [] cc = "PO" -> ~this.flags.P
      [] cc = "PE" -> this.flags.P
      [] cc = "P" -> ~this.flags.S
      [] cc = "M" -> this.flags.S

opJMP(this) == [this EXCEPT !.registers.PC = readWord(this, this.registers.PC)]

\* Jcond leaving PC on its operand when the jump is not taken
opJcondWithoutOperandSkip(this, cc) ==
    LET tempAddr == readWord(this, this.registers.PC)
    IN  IF condition(this, cc) THEN [this EXCEPT !.registers.PC = tempAddr]
        ELSE this

opJcond(this, cc) ==
    LET tempAddr == readWord(this, this.registers.PC)
    IN  IF condition(this, cc) THEN [this EXCEPT !.registers.PC = tempAddr]
        ELSE advancePC(this, 2)

\* CALL pushing the address of its operand instead of the address after it
opCALLPushingOperandAddress(this) ==
    LET tempAddr == readWord(this, this.registers.PC)
        pushed == pushWord(this, this.registers.PC)
    IN  [pushed EXCEPT !.registers.PC = tempAddr]

opCALL(this) ==
    LET tempAddr == readWord(this, this.registers.PC)
        pushed == pushWord(this, And(this.registers.PC + 2, \hFFFF))
    IN  [pushed EXCEPT !.registers.PC = tempAddr]

opCcond(this, cc) ==
    LET tempAddr == readWord(this, this.registers.PC)
    IN  IF condition(this, cc)
        THEN [pushWord(this, And(this.registers.PC + 2, \hFFFF)) EXCEPT !.registers.PC = tempAddr]
        ELSE advancePC(this, 2)

opRET(this) ==
    LET res == popWord(this)
    IN  [res.cpu EXCEPT !.registers.PC = res.result]

opRcond(this, cc) == IF condition(this, cc) THEN opRET(this) ELSE this

opPOP(this, rp) ==
    LET res == popWord(this)
    IN  CASE rp = "B" -> setBC(res.cpu, res.result)
          [] rp = "D" -> setDE(res.cpu, res.result)
          [] rp = "H" -> setHL(res.cpu, res.result)
          [] rp = "PSW" -> setPSW(res.cpu, res.result)

opPUSH(this, rp) ==
    pushWord(this, CASE rp = "B" -> getBC(this)
                     [] rp = "D" -> getDE(this)
                     [] rp = "H" -> getHL(this)
                     [] rp = "PSW" -> getPSW(this))

opIN(this) ==
    LET tempVal == readByte(this, this.registers.PC)
    IN  advancePC([this EXCEPT !.registers.A = ArrayGet(this.ioPorts, tempVal)], 1)

\* OUT without the store into ioPorts
opOUTWithoutStore(this) == advancePC(this, 1)

opOUT(this) ==
    LET tempVal == readByte(this, this.registers.PC)
    IN  advancePC([this EXCEPT !.ioPorts = ArrayPut(@, tempVal, this.registers.A)], 1)

opXCHG(this) ==
    LET tempH == this.registers.H
        tempL == this.registers.L
    IN  [this EXCEPT !.registers.H = this.registers.D, !.registers.L = this.registers.E,
                     !.registers.D = tempH, !.registers.E = tempL]

\* XTHL reading the stack after it has written L and H there
opXTHLReadingAfterWriting(this) ==
    LET s1 == writeByte(this, this.registers.SP, this.registers.L)
        s2 == writeByte(s1, this.registers.SP + 1, this.registers.H)
    IN  [s2 EXCEPT !.registers.L = readByte(s2, this.registers.SP),
                   !.registers.H = readByte(s2, this.registers.SP + 1)]

opXTHL(this) ==
    LET lFromStack == readByte(this, this.registers.SP)
        hFromStack == readByte(this, this.registers.SP + 1)
        s1 == writeByte(this, this.registers.SP, this.registers.L)
        s2 == writeByte(s1, this.registers.SP + 1, this.registers.H)
    IN  [s2 EXCEPT !.registers.L = lFromStack, !.registers.H = hFromStack]

opSPHL(this) == [this EXCEPT !.registers.SP = getHL(this)]

opPCHL(this) == [this EXCEPT !.registers.PC = getHL(this)]

opRLC(this) ==
    LET msb == Shr(And(this.registers.A, \h80), 7)
    IN  [this EXCEPT !.registers.A = And(Or(Shl(this.registers.A, 1), msb), \hFF),
                     !.flags.CY = (msb = 1)]

opRRC(this) ==
    LET lsb == And(this.registers.A, \h01)
    IN  [this EXCEPT !.registers.A = And(Or(Shr(this.registers.A, 1), Shl(lsb, 7)), \hFF),
                     !.flags.CY = (lsb = 1)]

opRAL(this) ==
    LET oldCY == IF this.flags.CY THEN 1 ELSE 0
    IN  [this EXCEPT !.flags.CY = (And(this.registers.A, \h80) # 0),
                     !.registers.A = And(Or(Shl(this.registers.A, 1), oldCY), \hFF)]

opRAR(this) ==
    LET oldCY == IF this.flags.CY THEN 1 ELSE 0
    IN  [this EXCEPT !.flags.CY = (And(this.registers.A, \h01) # 0),
                     !.registers.A = And(Or(Shr(this.registers.A, 1), Shl(oldCY, 7)), \hFF)]

\* DAA without the final CY = oldCY || CY
opDAAWithoutOldCarry(this) ==
    LET a == this.registers.A
        lsn == And(a, \h0F)
        msn == Shr(a, 4)
        low == IF this.flags.AC \/ lsn > 9 THEN \h06 ELSE 0
        high == IF this.flags.CY \/ msn > 9 \/ (msn >= 9 /\ lsn > 9) THEN \h60 ELSE 0
        res == add8bit(this, a, low + high, FALSE)
    IN  [res.cpu EXCEPT !.registers.A = res.result]

\* DAA correcting the low nibble only when it exceeds 9, whatever AC is
opDAAIgnoringAuxiliaryCarry(this) ==
    LET a == this.registers.A
        lsn == And(a, \h0F)
        msn == Shr(a, 4)
        oldCY == this.flags.CY
        low == IF lsn > 9 THEN \h06 ELSE 0
        high == IF this.flags.CY \/ msn > 9 \/ (msn >= 9 /\ lsn > 9) THEN \h60 ELSE 0
        res == add8bit(this, a, low + high, FALSE)
    IN  [res.cpu EXCEPT !.registers.A = res.result,
                        !.flags.CY = (oldCY \/ res.cpu.flags.CY)]

opDAA(this) ==
    LET a == this.registers.A
        lsn == And(a, \h0F)
        msn == Shr(a, 4)
        oldCY == this.flags.CY
        low == IF this.flags.AC \/ lsn > 9 THEN \h06 ELSE 0
        high == IF this.flags.CY \/ msn > 9 \/ (msn >= 9 /\ lsn > 9) THEN \h60 ELSE 0
        correction == low + high
        res == add8bit(this, a, correction, FALSE)
    IN  [res.cpu EXCEPT !.registers.A = res.result,
                        !.flags.CY = (oldCY \/ res.cpu.flags.CY)]

\* CMA without the & 0xFF
opCMAUnmasked(this) == [this EXCEPT !.registers.A = Not(@)]

opCMA(this) == [this EXCEPT !.registers.A = And(Not(this.registers.A), \hFF)]

opSTC(this) == [this EXCEPT !.flags.CY = TRUE]

opCMC(this) == [this EXCEPT !.flags.CY = ~this.flags.CY]

\* the tail shared by every logical case: updateZSPFlags(A); CY = false; AC = false
logicalFlags(this, value) ==
    [updateZSPFlags([this EXCEPT !.registers.A = value], value)
        EXCEPT !.flags.CY = FALSE, !.flags.AC = FALSE]

opANA(this, r) == logicalFlags(this, And(this.registers.A, getOperand(this, r)))

opANI(this) ==
    LET tempVal == readByte(this, this.registers.PC)
    IN  advancePC(logicalFlags(this, And(this.registers.A, tempVal)), 1)

opXRA(this, r) == logicalFlags(this, Xor(this.registers.A, getOperand(this, r)))

opXRI(this) ==
    LET tempVal == readByte(this, this.registers.PC)
    IN  advancePC(logicalFlags(this, Xor(this.registers.A, tempVal)), 1)

opORA(this, r) == logicalFlags(this, Or(this.registers.A, getOperand(this, r)))

opORI(this) ==
    LET tempVal == readByte(this, this.registers.PC)
    IN  advancePC(logicalFlags(this, Or(this.registers.A, tempVal)), 1)

opCMP(this, r) == sub8bit(this, this.registers.A, getOperand(this, r), FALSE).cpu

opCPI(this) ==
    LET tempVal == readByte(this, this.registers.PC)
    IN  advancePC(sub8bit(this, this.registers.A, tempVal, FALSE).cpu, 1)

opDAD(this, rp) ==
    dad(this, CASE rp = "B" -> getBC(this)
                [] rp = "D" -> getDE(this)
                [] rp = "H" -> getHL(this)
                [] rp = "SP" -> this.registers.SP)

\* INX rp (delta = 1) and DCX rp (delta = -1)
opINXDCX(this, rp, delta) ==
    CASE rp = "B" -> setBC(this, And(getBC(this) + delta, \hFFFF))
      [] rp = "D" -> setDE(this, And(getDE(this) + delta, \hFFFF))
      [] rp = "H" -> setHL(this, And(getHL(this) + delta, \hFFFF))
      [] rp = "SP" -> [this EXCEPT !.registers.SP = And(@ + delta, \hFFFF)]

opSTAX(this, rp) ==
    writeByte(this, IF rp = "B" THEN getBC(this) ELSE getDE(this), this.registers.A)

opLDAX(this, rp) ==
    [this EXCEPT !.registers.A = readByte(this, IF rp = "B" THEN getBC(this) ELSE getDE(this))]

opSHLD(this) ==
    LET tempAddr == readWord(this, this.registers.PC)
    IN  advancePC(writeWord(this, tempAddr, getHL(this)), 2)

opLHLD(this) ==
    LET tempAddr == readWord(this, this.registers.PC)
    IN  advancePC(setHL(this, readWord(this, tempAddr)), 2)

\* RST n jumping to n instead of 8 * n
opRSTWithoutScaling(this, n) == [pushWord(this, this.registers.PC) EXCEPT !.registers.PC = n]

opRST(this, n) == [pushWord(this, this.registers.PC) EXCEPT !.registers.PC = 8 * n]

\* default: halt on unknown instruction
opDefault(this) == [this EXCEPT !.halted = TRUE]

\* the switch of executeInstruction, case label by case label
\* the case labels of the switch in executeInstruction
caseLabels ==
    {\h00, \h01, \h02, \h03, \h04, \h05, \h06, \h07, \h09, \h0A, \h0B, \h0C, \h0D, \h0E, \h0F,
     \h11, \h12, \h13, \h14, \h15, \h16, \h17, \h19, \h1A, \h1B, \h1C, \h1D, \h1E, \h1F,
     \h20, \h21, \h22, \h23, \h24, \h25, \h26, \h27, \h29, \h2A, \h2B, \h2C, \h2D, \h2E, \h2F,
     \h30, \h31, \h32, \h33, \h34, \h35, \h36, \h37, \h39, \h3A, \h3B, \h3C, \h3D, \h3E, \h3F,
     \h40, \h41, \h42, \h43, \h44, \h45, \h46, \h47, \h48, \h49, \h4A, \h4B, \h4C, \h4D, \h4E, \h4F,
     \h50, \h51, \h52, \h53, \h54, \h55, \h56, \h57, \h58, \h59, \h5A, \h5B, \h5C, \h5D, \h5E, \h5F,
     \h60, \h61, \h62, \h63, \h64, \h65, \h66, \h67, \h68, \h69, \h6A, \h6B, \h6C, \h6D, \h6E, \h6F,
     \h70, \h71, \h72, \h73, \h74, \h75, \h76, \h77, \h78, \h79, \h7A, \h7B, \h7C, \h7D, \h7E, \h7F,
     \h80, \h81, \h82, \h83, \h84, \h85, \h86, \h87, \h88, \h89, \h8A, \h8B, \h8C, \h8D, \h8E, \h8F,
     \h90, \h91, \h92, \h93, \h94, \h95, \h96, \h97, \h98, \h99, \h9A, \h9B, \h9C, \h9D, \h9E, \h9F,
     \hA0, \hA1, \hA6, \hA7, \hA8, \hAE, \hAF,
     \hB0, \hB6, \hB7, \hB8, \hBE, \hBF,
     \hC0, \hC1, \hC2, \hC3, \hC4, \hC5, \hC6, \hC7, \hC8, \hC9, \hCA, \hCC, \hCD, \hCE, \hCF,
     \hD0, \hD1, \hD2, \hD3, \hD4, \hD5, \hD6, \hD7, \hD8, \hDA, \hDB, \hDC, \hDE, \hDF,
     \hE1, \hE2, \hE3, \hE5, \hE6, \hE7, \hE9, \hEA, \hEB, \hEE, \hEF,
     \hF1, \hF2, \hF3, \hF5, \hF6, \hF7, \hF9, \hFA, \hFB, \hFE, \hFF}

executeInstruction(this, opcode) ==
    LET r == RegNames[(opcode % 8) + 1]
        d == RegNames[((opcode \div 8) % 8) + 1]
    IN  IF opcode \notin caseLabels THEN opDefault(this)
        ELSE
        CASE opcode = \h00 -> this
          [] opcode = \h01 -> opLXI(this, "B")
          [] opcode = \h11 -> opLXI(this, "D")
          [] opcode = \h21 -> opLXI(this, "H")
          [] opcode = \h31 -> opLXI(this, "SP")
          [] opcode = \h32 -> opSTA(this)
          [] opcode = \h3A -> opLDA(this)
          [] opcode \in {\h06, \h0E, \h16, \h1E, \h26, \h2E, \h36, \h3E} -> opMVI(this, d)
          [] opcode \in ((\h40 .. \h7F) \ {\h76}) -> opMOV(this, d, r)
          [] opcode = \h76 -> opHLT(this)
          [] opcode \in (\h80 .. \h87) -> opADD(this, r)
          [] opcode \in (\h88 .. \h8F) -> opADC(this, r)
          [] opcode \in (\h90 .. \h97) -> opSUB(this, r)
          [] opcode \in (\h98 .. \h9F) -> opSBB(this, r)
          [] opcode \in {\h04, \h0C, \h14, \h1C, \h24, \h2C, \h34, \h3C} -> opINR(this, d)
          [] opcode \in {\h05, \h0D, \h15, \h1D, \h25, \h2D, \h35, \h3D} -> opDCR(this, d)
          [] opcode = \hC6 -> opADI(this)
          [] opcode = \hCE -> opACI(this)
          [] opcode = \hD6 -> opSUI(this)
          [] opcode = \hDE -> opSBI(this)
          [] opcode = \hC3 -> opJMP(this)
          [] opcode = \hC2 -> opJcond(this, "NZ")
          [] opcode = \hCA -> opJcond(this, "Z")
          [] opcode = \hD2 -> opJcond(this, "NC")
          [] opcode = \hDA -> opJcond(this, "C")
          [] opcode = \hE2 -> opJcond(this, "PO")
          [] opcode = \hEA -> opJcond(this, "PE")
          [] opcode = \hF2 -> opJcond(this, "P")
          [] opcode = \hFA -> opJcond(this, "M")
          [] opcode = \hCD -> opCALL(this)
          [] opcode = \hC4 -> opCcond(this, "NZ")
          [] opcode = \hCC -> opCcond(this, "Z")
          [] opcode = \hD4 -> opCcond(this, "NC")
          [] opcode = \hDC -> opCcond(this, "C")
          [] opcode = \hC9 -> opRET(this)
          [] opcode = \hC0 -> opRcond(this, "NZ")
          [] opcode = \hC8 -> opRcond(this, "Z")
          [] opcode = \hD0 -> opRcond(this, "NC")
          [] opcode = \hD8 -> opRcond(this, "C")
          [] opcode = \hC1 -> opPOP(this, "B")
          [] opcode = \hD1 -> opPOP(this, "D")
          [] opcode = \hE1 -> opPOP(this, "H")
          [] opcode = \hF1 -> opPOP(this, "PSW")
          [] opcode = \hC5 -> opPUSH(this, "B")
          [] opcode = \hD5 -> opPUSH(this, "D")
          [] opcode = \hE5 -> opPUSH(this, "H")
          [] opcode = \hF5 -> opPUSH(this, "PSW")
          [] opcode = \hDB -> opIN(this)
          [] opcode = \hD3 -> opOUT(this)
          [] opcode = \hEB -> opXCHG(this)
          [] opcode = \hE3 -> opXTHL(this)
          [] opcode = \hF9 -> opSPHL(this)
          [] opcode = \hE9 -> opPCHL(this)
          [] opcode = \h07 -> opRLC(this)
          [] opcode = \h0F -> opRRC(this)
          [] opcode = \h17 -> opRAL(this)
          [] opcode = \h1F -> opRAR(this)
          [] opcode = \h27 -> opDAA(this)
          [] opcode = \h2F -> opCMA(this)
          [] opcode = \h37 -> opSTC(this)
          [] opcode = \h3F -> opCMC(this)
          [] opcode \in {\hA0, \hA1, \hA6, \hA7} -> opANA(this, r)
          [] opcode = \hE6 -> opANI(this)
          [] opcode \in {\hA8, \hAE, \hAF} -> opXRA(this, r)
          [] opcode = \hEE -> opXRI(this)
          [] opcode \in {\hB0, \hB6, \hB7} -> opORA(this, r)
          [] opcode = \hF6 -> opORI(this)
          [] opcode \in {\hB8, \hBE, \hBF} -> opCMP(this, r)
          [] opcode = \hFE -> opCPI(this)
          [] opcode = \h09 -> opDAD(this, "B")
          [] opcode = \h19 -> opDAD(this, "D")
          [] opcode = \h29 -> opDAD(this, "H")
          [] opcode = \h39 -> opDAD(this, "SP")
          [] opcode = \h03 -> opINXDCX(this, "B", 1)
          [] opcode = \h0B -> opINXDCX(this, "B", -1)
          [] opcode = \h13 -> opINXDCX(this, "D", 1)
          [] opcode = \h1B -> opINXDCX(this, "D", -1)
          [] opcode = \h23 -> opINXDCX(this, "H", 1)
          [] opcode = \h2B -> opINXDCX(this, "H", -1)
          [] opcode = \h33 -> opINXDCX(this, "SP", 1)
          [] opcode = \h3B -> opINXDCX(this, "SP", -1)
          [] opcode = \h02 -> opSTAX(this, "B")
          [] opcode = \h12 -> opSTAX(this, "D")
          [] opcode = \h0A -> opLDAX(this, "B")
          [] opcode = \h1A -> opLDAX(this, "D")
          [] opcode = \h22 -> opSHLD(this)
          [] opcode = \h2A -> opLHLD(this)
          [] opcode \in {\hFB, \hF3, \h20, \h30} -> this
          [] opcode \in {\hC7, \hCF, \hD7, \hDF, \hE7, \hEF, \hF7, \hFF} ->
                opRST(this, (opcode \div 8) % 8)

\* step() without the early return on halted
stepIgnoringHalted(this) ==
    LET opcode == readByte(this, this.registers.PC)
    IN  executeInstruction(advancePC(this, 1), opcode)

step(this) ==
    IF this.halted THEN this
    ELSE LET opcode == readByte(this, this.registers.PC)
         IN  executeInstruction(advancePC(this, 1), opcode)

\* { ...obj }: a new object holding the values obj has now
Copy(obj) == [kind |-> "copy", value |-> obj]

\* a reference to the processor's own array: it reads whatever the array holds later
Reference(obj) == [kind |-> "reference"]

\* getState() handing out the live registers object instead of a copy
getStateSharingRegisters(this) ==
    [registers |-> Reference(this.registers),
     flags |-> Copy(this.flags),
     memory |-> Reference(this.memory),
     halted |-> this.halted,
     ioPorts |-> Reference(this.ioPorts)]

getState(this) ==
    [registers |-> Copy(this.registers),
     flags |-> Copy(this.flags),
     memory |-> Reference(this.memory),
     halted |-> this.halted,
     ioPorts |-> Reference(this.ioPorts)]

\* what a holder of a snapshot field reads through it, live being the processor's object
Deref(field, live) == IF field.kind = "reference" THEN live ELSE field.value

\* History of the last operation: its name and, for writeByte, its arguments.
Operation(name, address, value) == [name |-> name, address |-> address, value |-> value]

\* History of an operation that calls step(): the address step() fetched from and
\* the opcode it fetched, or -1 when it returned at once because halted was set.
StepOperation(name) ==
    Operation(name, cpu.registers.PC,
              IF cpu.halted THEN -1 ELSE readByte(cpu, cpu.registers.PC))

\* History of reset(): the PC it was called at, and 1 if halted was set plus 2
\* if a continuous run was active.
ResetOperation ==
    Operation("reset", cpu.registers.PC,
              (IF cpu.halted THEN 1 ELSE 0) + (IF isRunning THEN 2 ELSE 0))

\* failStop after step() is called: set when the call fetches a byte that has no
\* case label.
FailStopAfterStep ==
    failStop \/ (~cpu.halted /\ readByte(cpu, cpu.registers.PC) \notin caseLabels)

(***************************************************************************)
(* Bounds and inputs of the engine's specification.                        *)
(***************************************************************************)
MaxSteps == 2

MaxWrites == 2

\* The (address, value) pairs handed to writeByte.  The first call loads the
\* opcode to run at address 0, any byte; later calls patch operands and pass
\* addresses and values outside 0..65535 and 0..255.
WriteInputs(n) ==
    IF n = 0 THEN {0} \X (0 .. 255)
    ELSE ({1} \X {\h01, \hD3, \hFF}) \cup {<<65536, \h176>>, <<65537, -138>>, <<-1, -138>>}

InteractionModes == {"IDLE", "EXAM_MEM_ADDR_INPUT", "EXAM_MEM_DATA_VIEW", "GO_ADDR_INPUT"}

Init ==
    /\ cpu = NewCPU8085
    /\ cpuState = getState(NewCPU8085)
    /\ mode = "IDLE"
    /\ inputBuffer = <<>>
    /\ currentExamAddress = 0
    /\ isRunning = FALSE
    /\ runIntervalRef = "null"
    /\ op = Operation("new", 0, 0)
    /\ steps = 0
    /\ writes = 0
    /\ failStop = FALSE

\* cpu.reset()
Reset ==
    /\ cpu' = reset(cpu)
    /\ op' = ResetOperation
    /\ failStop' = FALSE
    /\ UNCHANGED <<cpuState, appVars, steps, writes>>

\* cpu.writeByte(address, value)
WriteByte ==
    /\ writes < MaxWrites
    /\ \E in \in WriteInputs(writes) :
        /\ cpu' = writeByte(cpu, in[1], in[2])
        /\ op' = Operation("writeByte", in[1], in[2])
    /\ writes' = writes + 1
    /\ UNCHANGED <<cpuState, appVars, steps, failStop>>

\* cpu.step()
Step ==
    /\ steps < MaxSteps
    /\ cpu' = step(cpu)
    /\ op' = StepOperation("step")
    /\ steps' = steps + 1
    /\ failStop' = FailStopAfterStep
    /\ UNCHANGED <<cpuState, appVars, writes>>

\* cpu.getState()
GetState ==
    /\ cpuState' = getState(cpu)
    /\ op' = Operation("getState", 0, 0)
    /\ UNCHANGED <<cpu, appVars, steps, writes, failStop>>

Next == Reset \/ WriteByte \/ Step \/ GetState

Spec == Init /\ [][Next]_vars

(***************************************************************************)
(* The App driver.  A handler runs to completion together with the render  *)
(* and the effects it triggers.  runIntervalRef is "null", "live" (the id  *)
(* of an armed interval) or "cleared" (the id of an interval that was      *)
(* cleared without resetting the ref).                                     *)
(***************************************************************************)
hexChars == <<"0", "1", "2", "3", "4", "5", "6", "7", "8", "9", "A", "B", "C", "D", "E", "F">>

\* the digit a hex key stands for
DigitOf(key) == (CHOOSE i \in 1 .. 16 : hexChars[i] = key) - 1

\* parseInt(buffer, 16) of a non-empty string of hex digits
RECURSIVE parseInt(_)
parseInt(buffer) ==
    IF Len(buffer) = 0 THEN 0
    ELSE 16 * parseInt(SubSeq(buffer, 1, Len(buffer) - 1)) + DigitOf(buffer[Len(buffer)])

ControlKeys == {"EXAM_MEM", "STORE", "NEXT_ADDR", "PREV_ADDR", "GO"}

\* What the user types in the model: these addresses after EXAM MEM or GO, these
\* data bytes in the data view (0x10 has no case label, 0x76 is HLT); any prefix
\* of them may be on the display when another key is pressed.
AddressInputs == {<<"0", "0", "0", "0">>}

DataInputs == {<<"1", "0">>, <<"7", "6">>}

HexKeys == {"0", "1", "6", "7"}

IsPrefix(b, str) == Len(b) <= Len(str) /\ SubSeq(str, 1, Len(b)) = b

\* The choice is among the digits the user types; a buffer longer than an
\* address or a data byte is never excluded.
Typed(buffer) ==
    \/ /\ mode \in {"EXAM_MEM_ADDR_INPUT", "GO_ADDR_INPUT"}
       /\ (Len(buffer) > 4 \/ \E str \in AddressInputs : IsPrefix(buffer, str))
    \/ /\ mode = "EXAM_MEM_DATA_VIEW"
       /\ (Len(buffer) > 2 \/ \E str \in DataInputs : IsPrefix(buffer, str))
    \/ mode = "IDLE"

\* NEXT and PREV are pressed while they keep the examined address among these
ExamAddresses == {0, 1, 65535}

\* STORE is pressed with data on the display at most this many times
MaxStores == 1

\* refreshUI(): setCpuState(cpu.getState()), next being the processor after the handler
refreshUI(next) == cpuState' = getState(next)

\* handleKeyPress appending a digit in the data view whatever the buffer's length
handleKeyPressAppendingInDataView(key) ==
    LET same == [mode |-> mode, inputBuffer |-> inputBuffer,
                 currentExamAddress |-> currentExamAddress, store |-> -1]
    IN  IF key \in {hexChars[i] : i \in 1 .. 16} THEN
            IF mode \in {"EXAM_MEM_ADDR_INPUT", "GO_ADDR_INPUT"} THEN
                IF Len(inputBuffer) < 4
                THEN [same EXCEPT !.inputBuffer = Append(inputBuffer, key)]
                ELSE same
            ELSE IF mode = "EXAM_MEM_DATA_VIEW" THEN
                [same EXCEPT !.inputBuffer = Append(inputBuffer, key)]
            ELSE same
        ELSE CASE key = "EXAM_MEM" ->
                    [same EXCEPT !.mode = "EXAM_MEM_ADDR_INPUT", !.inputBuffer = <<>>]
               [] key = "STORE" ->
                    IF mode = "EXAM_MEM_DATA_VIEW" /\ Len(inputBuffer) > 0
                    THEN [same EXCEPT !.store = parseInt(inputBuffer), !.inputBuffer = <<>>]
                    ELSE same
               [] key = "NEXT_ADDR" ->
                    IF mode \in {"EXAM_MEM_DATA_VIEW", "IDLE", "EXAM_MEM_ADDR_INPUT"}
                    THEN [same EXCEPT !.currentExamAddress = And(currentExamAddress + 1, \hFFFF),
                                      !.inputBuffer = <<>>, !.mode = "EXAM_MEM_DATA_VIEW"]
                    ELSE same
               [] key = "PREV_ADDR" ->
                    IF mode \in {"EXAM_MEM_DATA_VIEW", "IDLE", "EXAM_MEM_ADDR_INPUT"}
                    THEN [same EXCEPT !.currentExamAddress = And(currentExamAddress - 1, \hFFFF),
                                      !.inputBuffer = <<>>, !.mode = "EXAM_MEM_DATA_VIEW"]
                    ELSE same
               [] key = "GO" ->
                    [same EXCEPT !.mode = "GO_ADDR_INPUT", !.inputBuffer = <<>>]
               [] OTHER -> same

\* handleKeyPress with STORE not testing the mode
handleKeyPressStoringInAnyMode(key) ==
    LET same == [mode |-> mode, inputBuffer |-> inputBuffer,
                 currentExamAddress |-> currentExamAddress, store |-> -1]
    IN  IF key \in {hexChars[i] : i \in 1 .. 16} THEN
            IF mode \in {"EXAM_MEM_ADDR_INPUT", "GO_ADDR_INPUT"} THEN
                IF Len(inputBuffer) < 4
                THEN [same EXCEPT !.inputBuffer = Append(inputBuffer, key)]
                ELSE same
            ELSE IF mode = "EXAM_MEM_DATA_VIEW" THEN
                IF Len(inputBuffer) >= 2
                THEN [same EXCEPT !.inputBuffer = <<key>>]
                ELSE [same EXCEPT !.inputBuffer = Append(inputBuffer, key)]
            ELSE same
        ELSE CASE key = "EXAM_MEM" ->
                    [same EXCEPT !.mode = "EXAM_MEM_ADDR_INPUT", !.inputBuffer = <<>>]
               [] key = "STORE" ->
                    IF Len(inputBuffer) > 0
                    THEN [same EXCEPT !.store = parseInt(inputBuffer), !.inputBuffer = <<>>]
                    ELSE same
               [] key = "NEXT_ADDR" ->
                    IF mode \in {"EXAM_MEM_DATA_VIEW", "IDLE", "EXAM_MEM_ADDR_INPUT"}
                    THEN [same EXCEPT !.currentExamAddress = And(currentExamAddress + 1, \hFFFF),
                                      !.inputBuffer = <<>>, !.mode = "EXAM_MEM_DATA_VIEW"]
                    ELSE same
               [] key = "PREV_ADDR" ->
                    IF mode \in {"EXAM_MEM_DATA_VIEW", "IDLE", "EXAM_MEM_ADDR_INPUT"}
                    THEN [same EXCEPT !.currentExamAddress = And(currentExamAddress - 1, \hFFFF),
                                      !.inputBuffer = <<>>, !.mode = "EXAM_MEM_DATA_VIEW"]
                    ELSE same
               [] key = "GO" ->
                    [same EXCEPT !.mode = "GO_ADDR_INPUT", !.inputBuffer = <<>>]
               [] OTHER -> same

\* the state handleKeyPress sets: mode, inputBuffer, currentExamAddress and the
\* byte it stores with cpu.writeByte (-1 when it stores nothing)
handleKeyPress(key) ==
    LET same == [mode |-> mode, inputBuffer |-> inputBuffer,
                 currentExamAddress |-> currentExamAddress, store |-> -1]
    IN  IF key \in {hexChars[i] : i \in 1 .. 16} THEN
            IF mode \in {"EXAM_MEM_ADDR_INPUT", "GO_ADDR_INPUT"} THEN
                IF Len(inputBuffer) < 4
                THEN [same EXCEPT !.inputBuffer = Append(inputBuffer, key)]
                ELSE same
            ELSE IF mode = "EXAM_MEM_DATA_VIEW" THEN
                IF Len(inputBuffer) >= 2
                THEN [same EXCEPT !.inputBuffer = <<key>>]
                ELSE [same EXCEPT !.inputBuffer = Append(inputBuffer, key)]
            ELSE same
        ELSE CASE key = "EXAM_MEM" ->
                    [same EXCEPT !.mode = "EXAM_MEM_ADDR_INPUT", !.inputBuffer = <<>>]
               [] key = "STORE" ->
                    IF mode = "EXAM_MEM_DATA_VIEW" /\ Len(inputBuffer) > 0
                    THEN [same EXCEPT !.store = parseInt(inputBuffer), !.inputBuffer = <<>>]
                    ELSE same
               [] key = "NEXT_ADDR" ->
                    IF mode \in {"EXAM_MEM_DATA_VIEW", "IDLE", "EXAM_MEM_ADDR_INPUT"}
                    THEN [same EXCEPT !.currentExamAddress = And(currentExamAddress + 1, \hFFFF),
                                      !.inputBuffer = <<>>, !.mode = "EXAM_MEM_DATA_VIEW"]
                    ELSE same
               [] key = "PREV_ADDR" ->
                    IF mode \in {"EXAM_MEM_DATA_VIEW", "IDLE", "EXAM_MEM_ADDR_INPUT"}
                    THEN [same EXCEPT !.currentExamAddress = And(currentExamAddress - 1, \hFFFF),
                                      !.inputBuffer = <<>>, !.mode = "EXAM_MEM_DATA_VIEW"]
                    ELSE same
               [] key = "GO" ->
                    [same EXCEPT !.mode = "GO_ADDR_INPUT", !.inputBuffer = <<>>]
               [] OTHER -> same

\* startContinuousExecution(startAddress), called with isRunning false
startContinuousExecution(this, startAddress) ==
    [this EXCEPT !.registers.PC = startAddress, !.halted = FALSE]

\* A key press: handleKeyPress, then the effect that watches inputBuffer complete.
KeyPress ==
    \E key \in HexKeys \cup ControlKeys :
        /\ op' = Operation("handleKeyPress", 0, 0)
        /\ UNCHANGED failStop
        /\ IF isRunning THEN UNCHANGED <<cpu, cpuState, appVars, steps, writes>>
           ELSE LET st == handleKeyPress(key)
                    stored == IF st.store >= 0
                              THEN writeByte(cpu, currentExamAddress, st.store)
                              ELSE cpu
                    full == Len(st.inputBuffer) = 4
                    addr == parseInt(st.inputBuffer)
                IN  /\ key \in {"NEXT_ADDR", "PREV_ADDR"} => st.currentExamAddress \in ExamAddresses
                    /\ key \in HexKeys => Typed(st.inputBuffer)
                    /\ st.store >= 0 => writes < MaxStores
                    /\ writes' = IF st.store >= 0 THEN writes + 1 ELSE writes
                    /\ IF st.store >= 0 THEN refreshUI(stored) ELSE UNCHANGED cpuState
                    /\ IF st.mode = "EXAM_MEM_ADDR_INPUT" /\ full THEN
                            /\ currentExamAddress' = addr
                            /\ mode' = "EXAM_MEM_DATA_VIEW"
                            /\ inputBuffer' = <<>>
                            /\ cpu' = stored
                            /\ UNCHANGED <<isRunning, runIntervalRef>>
                       ELSE IF st.mode = "GO_ADDR_INPUT" /\ full THEN
                            /\ inputBuffer' = <<>>
                            /\ mode' = "IDLE"
                            /\ cpu' = startContinuousExecution(stored, addr)
                            /\ isRunning' = TRUE
                            /\ runIntervalRef' = "live"
                            /\ UNCHANGED currentExamAddress
                       ELSE /\ mode' = st.mode
                            /\ inputBuffer' = st.inputBuffer
                            /\ currentExamAddress' = st.currentExamAddress
                            /\ cpu' = stored
                            /\ UNCHANGED <<isRunning, runIntervalRef>>
                    /\ UNCHANGED steps

\* handleReset without clearInterval(runIntervalRef.current)
handleResetWithoutClearInterval ==
    /\ cpu' = reset(cpu)
    /\ inputBuffer' = <<>>
    /\ currentExamAddress' = 0
    /\ mode' = "IDLE"
    /\ isRunning' = FALSE
    /\ runIntervalRef' = runIntervalRef
    /\ refreshUI(cpu')
    /\ op' = ResetOperation
    /\ failStop' = FALSE
    /\ UNCHANGED <<steps, writes>>

\* the RESET button
handleReset ==
    /\ cpu' = reset(cpu)
    /\ inputBuffer' = <<>>
    /\ currentExamAddress' = 0
    /\ mode' = "IDLE"
    /\ isRunning' = FALSE
    /\ runIntervalRef' = IF runIntervalRef = "null" THEN "null" ELSE "cleared"
    /\ refreshUI(cpu')
    /\ op' = ResetOperation
    /\ failStop' = FALSE
    /\ UNCHANGED <<steps, writes>>

\* handleExecuteStep without the !isRunning test
handleExecuteStepWhileRunning ==
    IF ~cpu.halted THEN
        /\ steps < MaxSteps
        /\ cpu' = step(cpu)
        /\ refreshUI(cpu')
        /\ currentExamAddress' = cpu'.registers.PC
        /\ op' = StepOperation("handleExecuteStep")
        /\ steps' = steps + 1
        /\ failStop' = FailStopAfterStep
        /\ UNCHANGED <<mode, inputBuffer, isRunning, runIntervalRef, writes>>
    ELSE
        /\ op' = Operation("handleExecuteStep", 0, 0)
        /\ UNCHANGED <<cpu, cpuState, appVars, steps, writes, failStop>>

\* the EXEC STEP button
handleExecuteStep ==
    IF ~cpu.halted /\ ~isRunning THEN
        /\ steps < MaxSteps
        /\ cpu' = step(cpu)
        /\ refreshUI(cpu')
        /\ currentExamAddress' = cpu'.registers.PC
        /\ op' = StepOperation("handleExecuteStep")
        /\ steps' = steps + 1
        /\ failStop' = FailStopAfterStep
        /\ UNCHANGED <<mode, inputBuffer, isRunning, runIntervalRef, writes>>
    ELSE
        /\ op' = Operation("handleExecuteStep", 0, 0)
        /\ UNCHANGED <<cpu, cpuState, appVars, steps, writes, failStop>>

\* the STOP button, shown while isRunning
stopExecution ==
    /\ isRunning
    /\ isRunning' = FALSE
    /\ runIntervalRef' = "null"
    /\ refreshUI(cpu)
    /\ op' = Operation("stopExecution", 0, 0)
    /\ UNCHANGED <<cpu, mode, inputBuffer, currentExamAddress, steps, writes, failStop>>

\* the interval callback without its if (cpu.halted) { stopExecution(); return; }
IntervalTickWithoutHaltedCheck ==
    /\ runIntervalRef = "live"
    /\ steps < MaxSteps
    /\ cpu' = step(cpu)
    /\ refreshUI(cpu')
    /\ currentExamAddress' = cpu'.registers.PC
    /\ op' = StepOperation("tick")
    /\ steps' = steps + 1
    /\ failStop' = FailStopAfterStep
    /\ UNCHANGED <<mode, inputBuffer, isRunning, runIntervalRef, writes>>

\* one firing of the interval armed by startContinuousExecution
IntervalTick ==
    /\ runIntervalRef = "live"
    /\ IF cpu.halted THEN
            /\ isRunning' = FALSE
            /\ runIntervalRef' = "null"
            /\ refreshUI(cpu)
            /\ op' = Operation("tick", 0, 0)
            /\ UNCHANGED <<cpu, mode, inputBuffer, currentExamAddress, steps, writes, failStop>>
       ELSE /\ steps < MaxSteps
            /\ cpu' = step(cpu)
            /\ refreshUI(cpu')
            /\ currentExamAddress' = cpu'.registers.PC
            /\ op' = StepOperation("tick")
            /\ steps' = steps + 1
            /\ failStop' = FailStopAfterStep
            /\ UNCHANGED <<mode, inputBuffer, isRunning, runIntervalRef, writes>>

NextApp == KeyPress \/ handleReset \/ handleExecuteStep \/ stopExecution \/ IntervalTick

SpecApp == Init /\ [][NextApp]_vars

(***************************************************************************)
(* The instruction reference table of the App (instructionSet): one entry  *)
(* per opcode byte it documents.                                           *)
(***************************************************************************)
instructionSet == (\h00 .. \hFF) \ {\h10, \h20, \h30}

\* the entries of instructionSet whose mnemonic is NOP
NopEntries == {\h00, \h08, \h18, \h28, \h38, \hCB, \hD9, \hDD, \hED, \hFD}

(***************************************************************************)
(* Properties.                                                             *)
(***************************************************************************)
\* this transition is a call of cpu.step()
StepCalled == steps' = steps + 1

\* the byte a call of step() fetches
Fetched == readByte(cpu, cpu.registers.PC)

\* PC after the fetch of one byte
FetchedPC == (cpu.registers.PC + 1) % 65536

\* C1: while halted is true a call of step() changes no register, no flag, no
\* memory byte, no I/O port and not halted, however often it is repeated.
HaltedStepChangesNothing ==
    [][(StepCalled /\ cpu.halted) => cpu' = cpu]_vars

\* step() has been called on a halted processor
HaltedStepWitness ==
    op.name = "step" /\ op.value = -1 /\ cpu.halted /\ cpu.memory # EmptyArray

\* C2: halted goes from true to false only by reset(); no step(), writeByte(),
\* getState() or keypad entry, a completed GO address included, clears it.
OnlyResetClearsHalted ==
    [][(cpu.halted /\ ~cpu'.halted) => op'.name = "reset"]_vars

\* C3: step() sets halted only when it fetched HLT (0x76) or a byte that is not
\* a documented 8085 opcode; every other documented opcode leaves halted false.
HaltOnlyOnHltOrUndocumented ==
    [][(StepCalled /\ ~cpu.halted /\ cpu'.halted)
          => Fetched \in ({\h76} \cup ((\h00 .. \hFF) \ instructionSet))]_vars

\* C4: a step() that fetches a byte with no assigned instruction sets halted,
\* leaves PC one past that byte and changes nothing else, and no later step()
\* executes an instruction until reset().
FailStopOnUnassignedByte ==
    /\ [][(StepCalled /\ ~cpu.halted /\ Fetched \notin caseLabels)
            => cpu' = [cpu EXCEPT !.registers.PC = FetchedPC, !.halted = TRUE]]_vars
    /\ [][(StepCalled /\ failStop) => cpu' = cpu]_vars

\* C5: a step() that fetches one of the documented NOP bytes advances PC by one,
\* changes nothing else and leaves halted false.
DocumentedNopIsNoOp ==
    [][(StepCalled /\ ~cpu.halted /\ Fetched \in NopEntries)
          => cpu' = [cpu EXCEPT !.registers.PC = FetchedPC]]_vars

\* the processor apart from the contents of memory
Indicators(this) ==
    [registers |-> this.registers, flags |-> this.flags,
     halted |-> this.halted, ioPorts |-> this.ioPorts]

\* C6: the state a fail-stop leaves differs from the state HLT leaves in some
\* part other than the program bytes: an indicator of the illegal instruction.
FailStopDistinguishableFromHlt ==
    [][(StepCalled /\ ~cpu.halted /\ Fetched \notin caseLabels)
          => Indicators(cpu') # Indicators(opHLT(advancePC(cpu, 1)))]_vars

\* C7: after reset() every general register is 0, SP is 0xFFFE, PC is 0, the
\* flags are S=0 Z=1 AC=0 P=1 CY=0 and halted is false, whatever came before.
ResetState ==
    op.name = "reset" =>
        /\ cpu.registers = [A |-> 0, B |-> 0, C |-> 0, D |-> 0, E |-> 0, H |-> 0,
                            L |-> 0, SP |-> 65534, PC |-> 0]
        /\ cpu.flags = [S |-> FALSE, Z |-> TRUE, AC |-> FALSE, P |-> TRUE, CY |-> FALSE]
        /\ cpu.halted = FALSE

\* reset() has been called on a halted processor whose PC had moved
ResetStateWitness ==
    op.name = "reset" /\ op.value = 1 /\ op.address # 0

\* C8: reset() changes no memory byte and no I/O port.
ResetKeepsMemoryAndPorts ==
    [][op'.name = "reset" => (cpu'.memory = cpu.memory /\ cpu'.ioPorts = cpu.ioPorts)]_vars

\* reset() has been called with bytes in memory and in a port
ResetKeepsWitness ==
    op.name = "reset" /\ cpu.memory # EmptyArray /\ cpu.ioPorts # EmptyArray

\* C9: writeByte(address, value) sets the cell at address mod 65536 to value
\* mod 256 and changes no other cell, register, flag, port or halted.
WriteByteEffect ==
    [][op'.name = "writeByte" =>
          LET a == op'.address % 65536
              v == op'.value % 256
          IN  /\ ArrayGet(cpu'.memory, a) = v
              /\ \A x \in (DOMAIN cpu.memory \cup DOMAIN cpu'.memory) \ {a} :
                    ArrayGet(cpu'.memory, x) = ArrayGet(cpu.memory, x)
              /\ Indicators(cpu') = Indicators(cpu)]_vars

\* writeByte() has been called with an address and a value out of range
WriteByteWitness ==
    op.name = "writeByte" /\ op.address = -1 /\ op.value = -138 /\ steps > 0

\* C10: the registers, flags and halted of a snapshot keep their values across
\* later step(), reset() and writeByte() calls, while its memory and ioPorts
\* read the processor's live arrays.
SnapshotCopiesAndReferences ==
    /\ [][op'.name \in {"step", "reset", "writeByte"} =>
            /\ Deref(cpuState'.registers, cpu'.registers) = Deref(cpuState.registers, cpu.registers)
            /\ Deref(cpuState'.flags, cpu'.flags) = Deref(cpuState.flags, cpu.flags)
            /\ cpuState'.halted = cpuState.halted]_vars
    /\ [](/\ Deref(cpuState.memory, cpu.memory) = cpu.memory
          /\ Deref(cpuState.ioPorts, cpu.ioPorts) = cpu.ioPorts)

\* a snapshot taken after a step, then a later step and a later write
SnapshotWitness ==
    /\ op.name = "writeByte"
    /\ cpuState.registers.value.PC # 0
    /\ cpuState.registers.value # cpu.registers
    /\ cpuState.halted # cpu.halted

\* C11: in every state reached by reset(), writeByte() and step(), A B C D E H
\* L are in 0..255, SP and PC in 0..65535, every memory byte and port in 0..255.
RegistersAndBytesInRange ==
    /\ \A r \in {"A", "B", "C", "D", "E", "H", "L"} : cpu.registers[r] \in 0 .. 255
    /\ cpu.registers.SP \in 0 .. 65535
    /\ cpu.registers.PC \in 0 .. 65535
    /\ DOMAIN cpu.memory \subseteq 0 .. 65535
    /\ \A x \in DOMAIN cpu.memory : cpu.memory[x] \in 0 .. 255
    /\ DOMAIN cpu.ioPorts \subseteq 0 .. 255
    /\ \A x \in DOMAIN cpu.ioPorts : cpu.ioPorts[x] \in 0 .. 255

\* two steps have run, the first wrapped A to 0xFF, and a byte was written
\* with an address and a value out of range
InRangeWitness ==
    /\ steps = 2 /\ cpu.registers.A = 255
    /\ 65535 \in DOMAIN cpu.memory

(***************************************************************************)
(* Prepared processors: a processor as a caller of the engine prepares it  *)
(* before stepping.  It is constructed, a program is written with          *)
(* writeByte, and registers and flags are assigned through the public      *)
(* fields of the instance.                                                 *)
(***************************************************************************)
RECURSIVE loadProgram(_, _, _)
loadProgram(this, address, bytes) ==
    IF bytes = <<>> THEN this
    ELSE loadProgram(writeByte(this, address, Head(bytes)), address + 1, Tail(bytes))

\* the registers of a new processor with the fields of assigned overwritten
Registers(assigned) ==
    [r \in DOMAIN NewCPU8085.registers |->
        IF r \in DOMAIN assigned THEN assigned[r] ELSE NewCPU8085.registers[r]]

\* the flags of a new processor with the fields of assigned overwritten
Flags(assigned) ==
    [f \in DOMAIN NewCPU8085.flags |->
        IF f \in DOMAIN assigned THEN assigned[f] ELSE NewCPU8085.flags[f]]

Prepared(address, bytes, registers, flags) ==
    [loadProgram(NewCPU8085, address, bytes) EXCEPT !.registers = registers, !.flags = flags]

\* the initial state of a run of the prepared processor this
InitPrepared(this) ==
    /\ cpu = this
    /\ cpuState = getState(this)
    /\ mode = "IDLE"
    /\ inputBuffer = <<>>
    /\ currentExamAddress = 0
    /\ isRunning = FALSE
    /\ runIntervalRef = "null"
    /\ op = Operation("new", 0, 0)
    /\ steps = 0
    /\ writes = 0
    /\ failStop = FALSE

\* bytes at the edges of the nibbles and of the sign
EdgeBytes == {\h00, \h01, \h0F, \h10, \h7F, \h80, \hF0, \hFF}

\* the number of set bits of a byte
BitCount(byte) == Cardinality({i \in 0 .. 7 : (byte \div 2^i) % 2 = 1})

(***************************************************************************)
(* Addition: ADD B, ADC B, ADI d8, ACI d8 on accumulator a, operand b and  *)
(* Carry cy.  ADC B runs over every pair of bytes.                         *)
(***************************************************************************)
AddOpcodes == {\h80, \h88, \hC6, \hCE}

InitAdd ==
    \E opcode \in AddOpcodes, a \in 0 .. 255, cy \in BOOLEAN :
        \E b \in (IF opcode = \h88 THEN 0 .. 255 ELSE EdgeBytes) :
            InitPrepared(Prepared(0, <<opcode, IF opcode \in {\hC6, \hCE} THEN b ELSE \h76>>,
                                  Registers([A |-> a, B |-> b]), Flags([CY |-> cy])))

SpecAdd == InitAdd /\ [][Step]_vars

\* C12: the 8-bit add of ADD, ADC, ADI and ACI returns (a+b+c) mod 256, sets
\* Carry iff a+b+c > 255, Auxiliary-Carry iff (a mod 16)+(b mod 16)+c >= 16,
\* Zero iff the result is 0, Sign iff bit 7 of it is set, Parity iff it has an
\* even number of set bits.
AddResultAndFlags ==
    [][(StepCalled /\ ~cpu.halted /\ Fetched \in AddOpcodes) =>
          LET a == cpu.registers.A
              b == IF Fetched \in {\hC6, \hCE} THEN readByte(cpu, FetchedPC)
                   ELSE cpu.registers.B
              c == IF Fetched \in {\h88, \hCE} /\ cpu.flags.CY THEN 1 ELSE 0
              result == (a + b + c) % 256
          IN  /\ cpu'.registers.A = result
              /\ cpu'.flags.CY = (a + b + c > 255)
              /\ cpu'.flags.AC = ((a % 16) + (b % 16) + c >= 16)
              /\ cpu'.flags.Z = (result = 0)
              /\ cpu'.flags.S = (result >= 128)
              /\ cpu'.flags.P = (BitCount(result) % 2 = 0)]_vars

\* ADC B has run and carried out of bit 3 but not out of bit 7
AddWitness ==
    /\ op.name = "step" /\ op.value = \h88 /\ steps = 1
    /\ cpu.registers.A = \h10 /\ cpu.registers.B = \h08 /\ cpu.flags.AC /\ ~cpu.flags.CY

(***************************************************************************)
(* Increment and decrement: INR r then DCR r, or DCR r then INR r, on      *)
(* every operand r, every byte v in it and both values of Carry.  For M    *)
(* the byte is kept at HL = 0x3000 + v, so that L holds what M held.       *)
(***************************************************************************)
INROpcode(r) == \h04 + 8 * ((CHOOSE i \in 1 .. 8 : RegNames[i] = r) - 1)

DCROpcode(r) == \h05 + 8 * ((CHOOSE i \in 1 .. 8 : RegNames[i] = r) - 1)

IncDecOpcodes == {INROpcode(r) : r \in {RegNames[i] : i \in 1 .. 8}}
                    \cup {DCROpcode(r) : r \in {RegNames[i] : i \in 1 .. 8}}

PreparedIncDec(r, v, cy, first, second) ==
    LET program == loadProgram(NewCPU8085, 0, <<first, second, \h76>>)
    IN  IF r = "M"
        THEN [writeByte(program, \h3000 + v, v) EXCEPT
                 !.registers = Registers([H |-> \h30, L |-> v]), !.flags = Flags([CY |-> cy])]
        ELSE [program EXCEPT
                 !.registers = Registers([x \in {r} |-> v]), !.flags = Flags([CY |-> cy])]

InitIncDec ==
    \E i \in 1 .. 8, v \in 0 .. 255, cy \in BOOLEAN, incFirst \in BOOLEAN :
        LET r == RegNames[i]
        IN  InitPrepared(PreparedIncDec(r, v, cy,
                IF incFirst THEN INROpcode(r) ELSE DCROpcode(r),
                IF incFirst THEN DCROpcode(r) ELSE INROpcode(r)))

SpecIncDec == InitIncDec /\ [][Step]_vars

\* the operand r of an instruction: a register, or for M the byte at HL
OperandOf(this, r) ==
    IF r = "M" THEN ArrayGet(this.memory, 256 * this.registers.H + this.registers.L)
    ELSE this.registers[r]

\* C13: every INR and DCR leaves Carry as it was and sets the operand, Sign,
\* Zero, Auxiliary-Carry and Parity as adding or subtracting 1 does.
IncDecKeepsCarry ==
    [][(StepCalled /\ ~cpu.halted /\ Fetched \in IncDecOpcodes) =>
          LET r == RegNames[(Fetched \div 8) + 1]
              x == OperandOf(cpu, r)
              inc == Fetched % 8 = 4
              result == IF inc THEN (x + 1) % 256 ELSE (x - 1) % 256
          IN  /\ OperandOf(cpu', r) = result
              /\ cpu'.flags.CY = cpu.flags.CY
              /\ cpu'.flags.Z = (result = 0)
              /\ cpu'.flags.S = (result >= 128)
              /\ cpu'.flags.P = (BitCount(result) % 2 = 0)
              /\ cpu'.flags.AC = (IF inc THEN (x % 16) + 1 >= 16 ELSE (x % 16) - 1 < 0)]_vars

\* INR A has run on 0xFF with Carry set: 0x00, Zero, Auxiliary-Carry, Carry
IncDecWitness ==
    /\ op.name = "step" /\ op.value = \h3C /\ steps = 1
    /\ cpu.registers.A = 0 /\ cpu.flags.Z /\ cpu.flags.AC /\ cpu.flags.CY

\* a run of SpecIncDec has executed its pair of instructions on operand r
PairExecuted(r) ==
    /\ op.name = "step" /\ steps = 2 /\ op.address = 1
    /\ {ArrayGet(cpu.memory, 0), ArrayGet(cpu.memory, 1)} = {INROpcode(r), DCROpcode(r)}

\* C14: INR r then DCR r, or DCR r then INR r, leaves r and Carry as they were
\* before the pair, for every r, every byte in r and both values of Carry.
IncDecRoundTrip ==
    \A i \in 1 .. 8 :
        LET r == RegNames[i]
            original == IF r = "M" THEN cpuState.registers.value.L
                        ELSE cpuState.registers.value[r]
        IN  PairExecuted(r) =>
                /\ OperandOf(cpu, r) = original
                /\ cpu.flags.CY = cpuState.flags.value.CY

\* DCR B then INR B has run on 0x00 with Carry clear, wrapping through 0xFF
RoundTripWitness ==
    /\ PairExecuted("B") /\ op.value = \h04
    /\ cpu.registers.B = 0 /\ ~cpu.flags.CY /\ cpu.flags.AC

(***************************************************************************)
(* Stack: PUSH source then POP target, the program away from the stack,    *)
(* over stack pointers at the edges of the address space and around        *)
(* 0x2000, and over 16-bit values in the source.                           *)
(***************************************************************************)
StackPairs == {"B", "D", "H", "PSW"}

PushOpcode(rp) == CASE rp = "B" -> \hC5 [] rp = "D" -> \hD5 [] rp = "H" -> \hE5 [] rp = "PSW" -> \hF5

PopOpcode(rp) == CASE rp = "B" -> \hC1 [] rp = "D" -> \hD1 [] rp = "H" -> \hE1 [] rp = "PSW" -> \hF1

StackProgramAddress == \h4000

StackPointers == {0, 1, 2, 3, \h00FF, \h0100, \h1FFF, \h2000, \h2001, \h8000, \hFFFE, \hFFFF}

StackValues == {\h0000, \h0001, \h1234, \h00FF, \hFF00, \h8001, \hA5D7, \hFFFF}

\* registers (and, for PSW, flags) that make the pair rp hold the word v
PairAssignment(rp, v) ==
    LET high == v \div 256
        low == v % 256
    IN  CASE rp = "B" -> [registers |-> [B |-> high, C |-> low], flags |-> <<>>]
          [] rp = "D" -> [registers |-> [D |-> high, E |-> low], flags |-> <<>>]
          [] rp = "H" -> [registers |-> [H |-> high, L |-> low], flags |-> <<>>]
          [] rp = "PSW" -> [registers |-> [A |-> high],
                            flags |-> [S |-> (low \div 128) % 2 = 1, Z |-> (low \div 64) % 2 = 1,
                                       AC |-> (low \div 16) % 2 = 1, P |-> (low \div 4) % 2 = 1,
                                       CY |-> low % 2 = 1]]

InitStack ==
    \E source \in StackPairs, target \in StackPairs, v \in StackValues, s \in StackPointers :
        LET pair == PairAssignment(source, v)
            registers == [Registers(pair.registers) EXCEPT !.SP = s, !.PC = StackProgramAddress]
        IN  InitPrepared(Prepared(StackProgramAddress,
                                  <<PushOpcode(source), PopOpcode(target), \h76>>,
                                  registers, Flags(pair.flags)))

SpecStack == InitStack /\ [][Step]_vars

\* the 16-bit word in pair rp: high register : low register, or A : status word
PairValue(registers, flags, rp) ==
    CASE rp = "B" -> 256 * registers.B + registers.C
      [] rp = "D" -> 256 * registers.D + registers.E
      [] rp = "H" -> 256 * registers.H + registers.L
      [] rp = "PSW" -> 256 * registers.A
                        + (IF flags.S THEN 128 ELSE 0) + (IF flags.Z THEN 64 ELSE 0)
                        + (IF flags.AC THEN 16 ELSE 0) + (IF flags.P THEN 4 ELSE 0)
                        + 2 + (IF flags.CY THEN 1 ELSE 0)

\* C15: a push of the word v with stack pointer s leaves SP = s-2, the high
\* byte of v at s-1, the low byte at s-2 (addresses modulo 65536) and every
\* other memory byte as it was.
PushEffect ==
    [][(StepCalled /\ ~cpu.halted /\ Fetched \in {PushOpcode(rp) : rp \in StackPairs}) =>
          LET rp == CHOOSE x \in StackPairs : PushOpcode(x) = Fetched
              v == PairValue(cpu.registers, cpu.flags, rp)
              s == cpu.registers.SP
              highAt == (s - 1) % 65536
              lowAt == (s - 2) % 65536
          IN  /\ cpu'.registers.SP = lowAt
              /\ ArrayGet(cpu'.memory, highAt) = v \div 256
              /\ ArrayGet(cpu'.memory, lowAt) = v % 256
              /\ \A x \in (DOMAIN cpu.memory \cup DOMAIN cpu'.memory) \ {highAt, lowAt} :
                    ArrayGet(cpu'.memory, x) = ArrayGet(cpu.memory, x)]_vars

\* PUSH B has pushed 0x1234 at SP = 0x2000: 0x12 at 0x1FFF, 0x34 at 0x1FFE
PushWitness ==
    /\ op.name = "step" /\ op.value = \hC5 /\ steps = 1
    /\ cpu.registers.SP = \h1FFE
    /\ ArrayGet(cpu.memory, \h1FFF) = \h12 /\ ArrayGet(cpu.memory, \h1FFE) = \h34

\* a run of SpecStack has executed PUSH source then POP target
PushPopExecuted(source, target) ==
    /\ op.name = "step" /\ steps = 2
    /\ op.address = StackProgramAddress + 1 /\ op.value = PopOpcode(target)
    /\ ArrayGet(cpu.memory, StackProgramAddress) = PushOpcode(source)

\* C16: with 2 <= s <= 65535, PUSH of a pair immediately followed by POP into
\* a register pair leaves the pushed word in that pair and SP equal to s.
PushPopRoundTrip ==
    \A source \in StackPairs, target \in {"B", "D", "H"} :
        (PushPopExecuted(source, target) /\ cpuState.registers.value.SP \in 2 .. 65535) =>
            /\ PairValue(cpu.registers, cpu.flags, target)
                  = PairValue(cpuState.registers.value, cpuState.flags.value, source)
            /\ cpu.registers.SP = cpuState.registers.value.SP

\* PUSH B then POP D has moved 0x1234 through the stack at 0x2000
PushPopWitness ==
    /\ PushPopExecuted("B", "D")
    /\ cpu.registers.SP = \h2000 /\ cpu.registers.D = \h12 /\ cpu.registers.E = \h34

(***************************************************************************)
(* The sample program of the Getting Started page, MVI A,25H; MVI B,35H;   *)
(* ADD B; HLT, written at 0x2000 and run from there.  It runs on the       *)
(* processor as reset() leaves it and on processors whose A, B and flags   *)
(* hold other values before the run.                                       *)
(***************************************************************************)
SampleProgram == <<\h3E, \h25, \h06, \h35, \h80, \h76>>

SampleProgramAddress == \h2000

\* the number of step() calls made on the sample program
MaxRun == 5

InitSample ==
    \E a \in EdgeBytes, b \in EdgeBytes, flags \in [DOMAIN NewCPU8085.flags -> BOOLEAN] :
        InitPrepared(Prepared(SampleProgramAddress, SampleProgram,
                              Registers([A |-> a, B |-> b, PC |-> SampleProgramAddress]),
                              flags))

\* cpu.step(), called on the sample program
RunStep ==
    /\ steps < MaxRun
    /\ cpu' = step(cpu)
    /\ op' = StepOperation("step")
    /\ steps' = steps + 1
    /\ failStop' = FailStopAfterStep
    /\ UNCHANGED <<cpuState, appVars, writes>>

SpecSample == InitSample /\ [][RunStep]_vars

\* C17: with 3E 25 06 35 80 76 at 0x2000 and PC = 0x2000 after reset, four
\* step() calls end with A = 0x5A, B = 0x35, Zero false, Carry false, halted
\* true and PC = 0x2006, and any further step() changes nothing.
SampleProgramResult ==
    /\ [](steps = 4 =>
            /\ cpu.registers.A = \h5A /\ cpu.registers.B = \h35
            /\ ~cpu.flags.Z /\ ~cpu.flags.CY
            /\ cpu.halted /\ cpu.registers.PC = \h2006)
    /\ [][(StepCalled /\ steps >= 4) => cpu' = cpu]_vars

\* the run from the reset state has ended and step() was called once more
SampleProgramWitness ==
    /\ steps = 5 /\ op.name = "step" /\ op.value = -1
    /\ cpuState.registers.value = [NewCPU8085.registers EXCEPT !.PC = SampleProgramAddress]
    /\ cpuState.flags.value = NewCPU8085.flags
    /\ cpu.registers.A = \h5A /\ cpu.halted

(***************************************************************************)
(* Logical instructions: ANA r, XRA r, ORA r for the eight operands and    *)
(* ANI, XRI, ORI, on accumulator a and operand b (for operand A, b = a).   *)
(***************************************************************************)
LogicalOpcodes == (\hA0 .. \hB7) \cup {\hE6, \hEE, \hF6}

LogicalBytes == EdgeBytes \cup {\h55, \hAA, \h5A, \hA5}

InitLogical ==
    \E opcode \in LogicalOpcodes, a \in LogicalBytes, b \in LogicalBytes :
        LET r == RegNames[(opcode % 8) + 1]
            immediate == opcode \in {\hE6, \hEE, \hF6}
            program == loadProgram(NewCPU8085, 0, <<opcode, IF immediate THEN b ELSE \h76>>)
        IN  InitPrepared(
                IF immediate THEN [program EXCEPT !.registers = Registers([A |-> a])]
                ELSE IF r = "M" THEN
                    [writeByte(program, \h3000, b) EXCEPT
                        !.registers = Registers([A |-> a, H |-> \h30])]
                ELSE IF r = "A" THEN [program EXCEPT !.registers = Registers([A |-> a])]
                ELSE [program EXCEPT !.registers = Registers([x \in {"A", r} |->
                                                        IF x = "A" THEN a ELSE b])])

SpecLogical == InitLogical /\ [][Step]_vars

\* bit i of a byte
BitOf(byte, i) == (byte \div 2^i) % 2

\* C18: every ANA r, XRA r, ORA r (r in B C D E H L M A) and ANI, XRI, ORI
\* leaves A = A op operand, Carry and Auxiliary-Carry false, Sign, Zero and
\* Parity computed from the new A, and halted false.
LogicalInstructions ==
    [][(StepCalled /\ ~cpu.halted /\ Fetched \in LogicalOpcodes) =>
          LET a == cpu.registers.A
              b == IF Fetched \in {\hE6, \hEE, \hF6} THEN readByte(cpu, FetchedPC)
                   ELSE OperandOf(cpu, RegNames[(Fetched % 8) + 1])
              kind == CASE Fetched \in (\hA0 .. \hA7) \cup {\hE6} -> "AND"
                        [] Fetched \in (\hA8 .. \hAF) \cup {\hEE} -> "XOR"
                        [] Fetched \in (\hB0 .. \hB7) \cup {\hF6} -> "OR"
              bit(i) == CASE kind = "AND" -> BitOf(a, i) * BitOf(b, i)
                          [] kind = "XOR" -> (BitOf(a, i) + BitOf(b, i)) % 2
                          [] kind = "OR" -> IF BitOf(a, i) + BitOf(b, i) > 0 THEN 1 ELSE 0
              result == bit(0) + 2 * bit(1) + 4 * bit(2) + 8 * bit(3)
                        + 16 * bit(4) + 32 * bit(5) + 64 * bit(6) + 128 * bit(7)
          IN  /\ cpu'.registers.A = result
              /\ ~cpu'.flags.CY /\ ~cpu'.flags.AC
              /\ cpu'.flags.Z = (result = 0)
              /\ cpu'.flags.S = (result >= 128)
              /\ cpu'.flags.P = (BitCount(result) % 2 = 0)
              /\ ~cpu'.halted]_vars

(***************************************************************************)
(* Conditional jumps and calls at address p with a 16-bit operand, over    *)
(* every combination of flags, with p at the edges of the address space.   *)
(***************************************************************************)
JumpOpcodes == {\hC2, \hCA, \hD2, \hDA, \hE2, \hEA, \hF2, \hFA}

CallOpcodes == {\hC4, \hCC, \hD4, \hDC, \hE4, \hEC, \hF4, \hFC}

BranchAddresses == {\h0000, \h0100, \hFFFD, \hFFFE, \hFFFF}

BranchTargets == {\h0000, \h1234, \hFFFF}

InitBranch ==
    \E opcode \in JumpOpcodes \cup CallOpcodes, p \in BranchAddresses,
       target \in BranchTargets, s \in {\hFFFE, \h2000},
       flags \in [DOMAIN NewCPU8085.flags -> BOOLEAN] :
        InitPrepared(Prepared(p, <<opcode, target % 256, target \div 256>>,
                              Registers([PC |-> p, SP |-> s]), flags))

SpecBranch == InitBranch /\ [][Step]_vars

\* the condition a conditional jump, call or return tests: NZ Z NC C PO PE P M
Tested(opcode, flags) ==
    CASE opcode \in {\hC0, \hC2, \hC4} -> ~flags.Z
      [] opcode \in {\hC8, \hCA, \hCC} -> flags.Z
      [] opcode \in {\hD0, \hD2, \hD4} -> ~flags.CY
      [] opcode \in {\hD8, \hDA, \hDC} -> flags.CY
      [] opcode \in {\hE0, \hE2, \hE4} -> ~flags.P
      [] opcode \in {\hE8, \hEA, \hEC} -> flags.P
      [] opcode \in {\hF0, \hF2, \hF4} -> ~flags.S
      [] opcode \in {\hF8, \hFA, \hFC} -> flags.S

\* the 16-bit operand of the instruction at address p
OperandWord(this, p) ==
    ArrayGet(this.memory, (p + 1) % 65536) + 256 * ArrayGet(this.memory, (p + 2) % 65536)

\* C19: a conditional jump at p leaves PC at its operand if the tested flag
\* satisfies the condition and at (p+3) mod 65536 otherwise, and leaves SP,
\* memory, flags and the 8-bit registers unchanged.
ConditionalJump ==
    [][(StepCalled /\ ~cpu.halted /\ Fetched \in JumpOpcodes) =>
          LET p == cpu.registers.PC
              next == IF Tested(Fetched, cpu.flags) THEN OperandWord(cpu, p)
                      ELSE (p + 3) % 65536
          IN  /\ cpu'.registers = [cpu.registers EXCEPT !.PC = next]
              /\ cpu'.flags = cpu.flags
              /\ cpu'.memory = cpu.memory]_vars

\* JPE at 0xFFFF has run with Parity clear: not taken, PC wrapped to 0x0002
ConditionalJumpWitness ==
    /\ op.name = "step" /\ op.value = \hEA /\ op.address = \hFFFF /\ steps = 1
    /\ ~cpu.flags.P /\ cpu.registers.PC = 2

\* C20: a conditional call at p pushes (p+3) mod 65536 and sets PC to its
\* operand if the tested flag satisfies the condition, otherwise sets PC to
\* (p+3) mod 65536 with SP and memory unchanged; halted stays false.
ConditionalCall ==
    [][(StepCalled /\ ~cpu.halted /\ Fetched \in CallOpcodes) =>
          LET p == cpu.registers.PC
              s == cpu.registers.SP
              return == (p + 3) % 65536
              highAt == (s - 1) % 65536
              lowAt == (s - 2) % 65536
          IN  /\ ~cpu'.halted
              /\ IF Tested(Fetched, cpu.flags)
                 THEN /\ cpu'.registers.PC = OperandWord(cpu, p)
                      /\ cpu'.registers.SP = lowAt
                      /\ ArrayGet(cpu'.memory, highAt) = return \div 256
                      /\ ArrayGet(cpu'.memory, lowAt) = return % 256
                 ELSE /\ cpu'.registers.PC = return
                      /\ cpu'.registers.SP = s
                      /\ cpu'.memory = cpu.memory]_vars

\* ---- returns and restarts ----

ReturnOpcodes == {\hC0, \hC8, \hD0, \hD8, \hE0, \hE8, \hF0, \hF8}

RstOpcodes == {\hC7, \hCF, \hD7, \hDF, \hE7, \hEF, \hF7, \hFF}

\* a return or restart at p with the word target on the stack at s
InitReturn ==
    \E opcode \in ReturnOpcodes \cup RstOpcodes \cup {\hC9}, p \in BranchAddresses,
       target \in BranchTargets, s \in {\h0001, \hFFFE, \hFFFF, \h2000},
       flags \in [DOMAIN NewCPU8085.flags -> BOOLEAN] :
        LET stacked == loadProgram(NewCPU8085, s, <<target % 256, target \div 256>>)
        IN  InitPrepared([loadProgram(stacked, p, <<opcode>>) EXCEPT
                              !.registers = Registers([PC |-> p, SP |-> s, A |-> \h5A,
                                                       B |-> \h01, D |-> \h02, H |-> \h03]),
                              !.flags = flags])

SpecReturn == InitReturn /\ [][Step]_vars

\* the word in memory at address s, low byte first
WordAt(this, s) ==
    ArrayGet(this.memory, s % 65536) + 256 * ArrayGet(this.memory, (s + 1) % 65536)

\* C21: a conditional return at p sets PC to the word popped from the stack and
\* adds 2 to SP if the tested flag satisfies the condition, otherwise leaves PC
\* at (p+1) mod 65536 and SP unchanged; halted stays false.
ConditionalReturn ==
    [][(StepCalled /\ ~cpu.halted /\ Fetched \in ReturnOpcodes) =>
          LET p == cpu.registers.PC
              s == cpu.registers.SP
          IN  /\ ~cpu'.halted
              /\ IF Tested(Fetched, cpu.flags)
                 THEN /\ cpu'.registers.PC = WordAt(cpu, s)
                      /\ cpu'.registers.SP = (s + 2) % 65536
                 ELSE /\ cpu'.registers.PC = (p + 1) % 65536
                      /\ cpu'.registers.SP = s]_vars

\* C23: RST n at p pushes (p+1) mod 65536, high byte at (SP-1) mod 65536 and
\* low byte at (SP-2) mod 65536, subtracts 2 from SP and sets PC to 8n; the
\* other registers and the flags are unchanged.
RestartEffect ==
    [][(StepCalled /\ ~cpu.halted /\ Fetched \in RstOpcodes) =>
          LET p == cpu.registers.PC
              s == cpu.registers.SP
              n == (Fetched - \hC7) \div 8
              return == (p + 1) % 65536
              highAt == (s - 1) % 65536
              lowAt == (s - 2) % 65536
          IN  /\ cpu'.registers = [cpu.registers EXCEPT !.PC = 8 * n, !.SP = lowAt]
              /\ cpu'.flags = cpu.flags
              /\ ArrayGet(cpu'.memory, highAt) = return \div 256
              /\ ArrayGet(cpu'.memory, lowAt) = return % 256
              /\ \A x \in (DOMAIN cpu.memory \cup DOMAIN cpu'.memory) \ {highAt, lowAt} :
                    ArrayGet(cpu'.memory, x) = ArrayGet(cpu.memory, x)
              /\ ~cpu'.halted]_vars

\* RST 5 at 0x0100 has run with SP = 0x0001: 0x0101 was pushed at 0x0000 and
\* 0xFFFF and PC is 0x0028
RestartWitness ==
    /\ op.name = "step" /\ op.value = \hEF /\ op.address = \h0100 /\ steps = 1
    /\ cpu.registers.PC = \h28 /\ cpu.registers.SP = \hFFFF
    /\ ArrayGet(cpu.memory, 0) = \h01 /\ ArrayGet(cpu.memory, \hFFFF) = \h01

\* ---- CALL and the code it calls ----

\* called code: RET alone; NOP; PUSH B, POP B; INX SP, DCX SP; then code that
\* does not leave the stack as the call left it: POP B; XTHL
CalledCode ==
    {<<\hC9>>, <<\h00, \hC9>>, <<\hC5, \hC1, \hC9>>, <<\h33, \h3B, \hC9>>,
     <<\hC1, \hC9>>, <<\hE3, \hC9>>}

InitCall ==
    \E p \in {\h0100, \hFFFD, \hFFFE}, addr \in {\h0000, \h1234}, s \in {\h0001, \h2000, \hFFFF},
       code \in CalledCode, b \in {\h00, \hB7} :
        LET called == loadProgram(NewCPU8085, addr, code)
        IN  InitPrepared([loadProgram(called, p, <<\hCD, addr % 256, addr \div 256>>) EXCEPT
                              !.registers = Registers([PC |-> p, SP |-> s, B |-> b, C |-> \h0C,
                                                       H |-> \h12, L |-> \h34])])

SpecCall == InitCall /\ [][RunStep]_vars

\* C22: CALL addr at p pushes (p+3) mod 65536 and sets PC to addr; a RET that
\* finds SP and the two stack bytes as the call left them sets PC to
\* (p+3) mod 65536 and SP to its value before the call.
CallThenReturn ==
    [][(StepCalled /\ ~cpu.halted) =>
          LET p == cpuState.registers.value.PC
              s == cpuState.registers.value.SP
              return == (p + 3) % 65536
              pushedAt == (s - 2) % 65536
          IN  /\ steps = 0 =>
                    /\ Fetched = \hCD
                    /\ cpu'.registers.PC = OperandWord(cpu, p)
                    /\ cpu'.registers.SP = pushedAt
                    /\ WordAt(cpu', pushedAt) = return
              /\ (/\ steps > 0
                  /\ Fetched = \hC9
                  /\ cpu.registers.SP = pushedAt
                  /\ WordAt(cpu, pushedAt) = return) =>
                    /\ cpu'.registers.PC = return
                    /\ cpu'.registers.SP = s]_vars

\* CALL 0x1234 at 0xFFFD, then PUSH B, POP B and RET have run: PC is 0x0000,
\* three past the call, and SP is back at 0x2000
CallThenReturnWitness ==
    /\ op.name = "step" /\ op.value = \hC9 /\ op.address = \h1236 /\ steps = 4
    /\ cpuState.registers.value.PC = \hFFFD /\ cpuState.registers.value.SP = \h2000
    /\ cpu.registers.PC = 0 /\ cpu.registers.SP = \h2000 /\ ~cpu.halted

\* ---- the processor status word ----

\* PUSH PSW with every combination of flags, and POP PSW, PUSH PSW with every
\* byte on the stack where POP PSW reads the flags
InitPsw ==
    \/ \E a \in {\h00, \h5A, \hFF}, s \in {\h0001, \h2000},
          flags \in [DOMAIN NewCPU8085.flags -> BOOLEAN] :
           InitPrepared(Prepared(StackProgramAddress, <<\hF5>>,
                                 Registers([PC |-> StackProgramAddress, SP |-> s, A |-> a]),
                                 flags))
    \/ \E a \in {\h00, \h5A, \hFF}, s \in {\hFFFF, \h2000}, low \in 0 .. 255 :
           LET stacked == loadProgram(NewCPU8085, s, <<low, a>>)
           IN  InitPrepared([loadProgram(stacked, StackProgramAddress, <<\hF1, \hF5>>) EXCEPT
                                 !.registers = Registers([PC |-> StackProgramAddress, SP |-> s])])

SpecPsw == InitPsw /\ [][Step]_vars

\* C24: PUSH PSW writes at the new SP the byte S Z 0 AC 0 P 1 CY (bit 7 to
\* bit 0) and A at SP+1, whatever the flags, including flags that POP PSW
\* loaded from an arbitrary stack byte.
PushPswByte ==
    [][(StepCalled /\ ~cpu.halted) =>
          LET s == cpu.registers.SP
              Bit(flag) == IF flag THEN 1 ELSE 0
              popped == ArrayGet(cpu.memory, s)
              pushed == ArrayGet(cpu'.memory, (s - 2) % 65536)
          IN  /\ Fetched = \hF1 =>
                    /\ cpu'.flags = [S |-> BitOf(popped, 7) = 1, Z |-> BitOf(popped, 6) = 1,
                                     AC |-> BitOf(popped, 4) = 1, P |-> BitOf(popped, 2) = 1,
                                     CY |-> BitOf(popped, 0) = 1]
                    /\ cpu'.registers.A = ArrayGet(cpu.memory, (s + 1) % 65536)
              /\ Fetched = \hF5 =>
                    /\ cpu'.registers.SP = (s - 2) % 65536
                    /\ pushed = 128 * Bit(cpu.flags.S) + 64 * Bit(cpu.flags.Z)
                                + 16 * Bit(cpu.flags.AC) + 4 * Bit(cpu.flags.P)
                                + 2 + Bit(cpu.flags.CY)
                    /\ ArrayGet(cpu'.memory, (s - 1) % 65536) = cpu.registers.A
                    /\ cpu'.flags = cpu.flags]_vars

\* POP PSW read a byte with no flag bit set and PUSH PSW wrote back 0x02 there
PushPswWitness ==
    /\ op.name = "step" /\ op.value = \hF5 /\ steps = 2
    /\ cpu.registers.SP = \h2000 /\ cpu.registers.A = \h5A
    /\ cpu.flags = [S |-> FALSE, Z |-> FALSE, AC |-> FALSE, P |-> FALSE, CY |-> FALSE]
    /\ ArrayGet(cpu.memory, \h2000) = \h02 /\ ArrayGet(cpu.memory, \h2001) = \h5A

\* ---- DAA ----

\* DAA on every accumulator with every Carry and Auxiliary Carry
InitDaa ==
    \E a \in 0 .. 255, cy \in BOOLEAN, ac \in BOOLEAN, others \in BOOLEAN :
        InitPrepared(Prepared(0, <<\h27>>, Registers([A |-> a]),
                              [S |-> others, Z |-> others, AC |-> ac, P |-> others, CY |-> cy]))

SpecDaa == InitDaa /\ [][Step]_vars

\* C25: if Carry is true before DAA it is true after it, for every
\* accumulator value and Auxiliary Carry state.
DaaKeepsCarry ==
    [][(StepCalled /\ ~cpu.halted /\ Fetched = \h27 /\ cpu.flags.CY) => cpu'.flags.CY]_vars

\* DAA has run on A = 0x05 with Carry set and Auxiliary Carry clear: the
\* addition of 0x60 did not carry, A is 0x65 and Carry is still set
DaaKeepsCarryWitness ==
    /\ op.name = "step" /\ op.value = \h27 /\ steps = 1
    /\ cpuState.registers.value.A = \h05
    /\ cpuState.flags.value.CY /\ ~cpuState.flags.value.AC
    /\ cpu.registers.A = \h65 /\ cpu.flags.CY

\* ---- the run timer ----

\* window.setInterval fires the callback every 50 ms until clearInterval
SpecAppLive == SpecApp /\ WF_vars(IntervalTick)

\* C26: a tick of a continuous run calls step() only while halted is false;
\* a tick that finds halted true calls nothing on the processor, clears the
\* timer and sets isRunning false; so a run whose processor has halted
\* eventually leaves the running state.
RunStopsWhenHalted ==
    /\ [][op'.name = "tick" =>
            IF cpu.halted
            THEN /\ steps' = steps
                 /\ cpu' = cpu
                 /\ ~isRunning'
                 /\ runIntervalRef' = "null"
            ELSE StepCalled]_vars
    /\ (isRunning /\ cpu.halted) ~> ~isRunning

\* a run has executed HLT and the next tick has stopped it
RunStopsWitness ==
    /\ op = Operation("tick", 0, 0) /\ cpu.halted /\ ~failStop /\ steps > 0
    /\ ~isRunning /\ runIntervalRef = "null"

\* ---- IN and OUT ----

IoPorts == {\h00, \h01, \h7F, \hFF}

\* OUT p, CMA, IN q with the byte a in the accumulator
InitIo ==
    \E a \in EdgeBytes \cup {\h5A, \hD3, \hDB}, p \in IoPorts, q \in IoPorts,
       flags \in {Flags(<<>>), [f \in DOMAIN NewCPU8085.flags |-> TRUE]} :
        InitPrepared(Prepared(\h0100, <<\hD3, p, \h2F, \hDB, q>>,
                              Registers([PC |-> \h0100, SP |-> \h2000, A |-> a, B |-> \h0B,
                                         H |-> \h01, L |-> \h01]),
                              flags))

SpecIo == InitIo /\ [][RunStep]_vars

\* C27: OUT p stores A in port p and IN p loads port p into A; each changes
\* nothing else but PC, which advances by 2; after OUT p, an IN p whose port
\* was not written in between leaves A equal to the value written.
OutThenIn ==
    /\ [][(StepCalled /\ ~cpu.halted /\ Fetched = \hD3) =>
            LET p == ArrayGet(cpu.memory, FetchedPC)
            IN  cpu' = [cpu EXCEPT !.registers.PC = (@ + 2) % 65536,
                                   !.ioPorts = ArrayPut(@, p, cpu.registers.A)]]_vars
    /\ [][(StepCalled /\ ~cpu.halted /\ Fetched = \hDB) =>
            LET p == ArrayGet(cpu.memory, FetchedPC)
            IN  cpu' = [cpu EXCEPT !.registers.PC = (@ + 2) % 65536,
                                   !.registers.A = ArrayGet(cpu.ioPorts, p)]]_vars
    /\ [](\A p \in IoPorts :
            (/\ steps = 3
             /\ ArrayGet(cpu.memory, \h0101) = p
             /\ ArrayGet(cpu.memory, \h0104) = p) =>
                /\ cpu.registers.A = cpuState.registers.value.A
                /\ ArrayGet(cpu.ioPorts, p) = cpuState.registers.value.A)

\* OUT 0xFF, CMA, IN 0xFF have run with A = 0x80: CMA left 0x7F in A, IN
\* brought 0x80 back from port 0xFF
OutThenInWitness ==
    /\ op.name = "step" /\ op.value = \hDB /\ op.address = \h0103 /\ steps = 3
    /\ ArrayGet(cpu.memory, \h0101) = \hFF /\ ArrayGet(cpu.memory, \h0104) = \hFF
    /\ cpuState.registers.value.A = \h80
    /\ cpu.registers.A = \h80 /\ ArrayGet(cpu.ioPorts, \hFF) = \h80
    /\ cpu.registers.PC = \h0105

\* ---- XTHL ----

\* XTHL, XTHL with the word hl in HL and the word top on the stack at s; DE
\* holds a copy of top
InitXthl ==
    \E hl \in StackValues, top \in StackValues, s \in StackPointers :
        LET stacked == loadProgram(NewCPU8085, s, <<top % 256, top \div 256>>)
        IN  InitPrepared([loadProgram(stacked, StackProgramAddress, <<\hE3, \hE3>>) EXCEPT
                              !.registers = Registers([PC |-> StackProgramAddress, SP |-> s,
                                                       H |-> hl \div 256, L |-> hl % 256,
                                                       D |-> top \div 256, E |-> top % 256])])

SpecXthl == InitXthl /\ [][Step]_vars

\* C28: XTHL leaves SP unchanged, sets L to the old byte at SP and H to the
\* old byte at (SP+1) mod 65536 and writes the old L and H to those two
\* addresses; executing it twice restores HL and both stack bytes.
XthlExchanges ==
    /\ [][(StepCalled /\ ~cpu.halted /\ Fetched = \hE3) =>
            LET s == cpu.registers.SP
                next == (s + 1) % 65536
            IN  /\ cpu'.registers = [cpu.registers EXCEPT
                                        !.PC = FetchedPC,
                                        !.L = ArrayGet(cpu.memory, s),
                                        !.H = ArrayGet(cpu.memory, next)]
                /\ ArrayGet(cpu'.memory, s) = cpu.registers.L
                /\ ArrayGet(cpu'.memory, next) = cpu.registers.H
                /\ \A x \in (DOMAIN cpu.memory \cup DOMAIN cpu'.memory) \ {s, next} :
                      ArrayGet(cpu'.memory, x) = ArrayGet(cpu.memory, x)
                /\ cpu'.flags = cpu.flags]_vars
    /\ [](steps = 2 =>
            LET s == cpu.registers.SP
            IN  /\ cpu.registers.H = cpuState.registers.value.H
                /\ cpu.registers.L = cpuState.registers.value.L
                /\ s = cpuState.registers.value.SP
                /\ ArrayGet(cpu.memory, s) = cpu.registers.E
                /\ ArrayGet(cpu.memory, (s + 1) % 65536) = cpu.registers.D)

\* XTHL has run once with SP = 0xFFFF, HL = 0x1234 and 0xA5D7 on the stack:
\* HL is 0xA5D7 and 0x34, 0x12 are at 0xFFFF and 0x0000
XthlWitness ==
    /\ op.name = "step" /\ op.value = \hE3 /\ steps = 1
    /\ cpu.registers.SP = \hFFFF
    /\ cpu.registers.H = \hA5 /\ cpu.registers.L = \hD7
    /\ ArrayGet(cpu.memory, \hFFFF) = \h34 /\ ArrayGet(cpu.memory, 0) = \h12

\* XTHL has run twice from there: HL is 0x1234 again and 0xD7, 0xA5 are back
\* on the stack
XthlTwiceWitness ==
    /\ op.name = "step" /\ op.value = \hE3 /\ steps = 2
    /\ cpu.registers.SP = \hFFFF
    /\ cpu.registers.H = \h12 /\ cpu.registers.L = \h34
    /\ ArrayGet(cpu.memory, \hFFFF) = \hD7 /\ ArrayGet(cpu.memory, 0) = \hA5

\* ---- every opcode once ----

\* two sets of register values, each with the operand bytes that follow the
\* opcode
OpcodeSetups ==
    {[registers |-> Registers([A |-> \h81, B |-> \h00, C |-> \h01, D |-> \h80, E |-> \hFF,
                               H |-> \hFF, L |-> \hFF, SP |-> \h2000]),
      operand |-> <<\h34, \h12>>],
     [registers |-> Registers([A |-> \h00, B |-> \h12, C |-> \h34, D |-> \h00, E |-> \h01,
                               H |-> \h30, L |-> \h00, SP |-> \hFFFF]),
      operand |-> <<\hFF, \h00>>]}

\* one instruction of every opcode at p, with every combination of flags
InitOpcodes ==
    \E opcode \in 0 .. 255, p \in {\h0100, \hFFFE, \hFFFF}, setup \in OpcodeSetups,
       flags \in [DOMAIN NewCPU8085.flags -> BOOLEAN] :
        InitPrepared(Prepared(p, <<opcode>> \o setup.operand,
                              [setup.registers EXCEPT !.PC = p], flags))

SpecOpcodes == InitOpcodes /\ [][Step]_vars

\* MOV, HLT, MVI, LXI, LDA, STA, LDAX, STAX, LHLD, SHLD, XCHG, XTHL, SPHL, PCHL,
\* INX, DCX, PUSH, POP B/D/H, IN, OUT, CMA, jumps, calls, returns, RST, NOP,
\* EI, DI, RIM, SIM
NonFlagOpcodes ==
    (\h40 .. \h7F)
    \cup {\h06 + 8 * r : r \in 0 .. 7}
    \cup {\h01, \h11, \h21, \h31}
    \cup {\h3A, \h32, \h0A, \h1A, \h02, \h12, \h2A, \h22}
    \cup {\hEB, \hE3, \hF9, \hE9}
    \cup {\h03, \h13, \h23, \h33} \cup {\h0B, \h1B, \h2B, \h3B}
    \cup {\hC5, \hD5, \hE5, \hF5} \cup {\hC1, \hD1, \hE1}
    \cup {\hDB, \hD3, \h2F}
    \cup {\hC3} \cup JumpOpcodes \cup {\hCD} \cup CallOpcodes
    \cup {\hC9} \cup ReturnOpcodes \cup RstOpcodes
    \cup NopEntries \cup {\hFB, \hF3, \h20, \h30}

\* DAD, RLC, RRC, RAL, RAR, STC, CMC
CarryOnlyOpcodes == {\h09, \h19, \h29, \h39} \cup {\h07, \h0F, \h17, \h1F, \h37, \h3F}

\* C29: MOV, MVI, LXI, LDA, STA, LDAX, STAX, LHLD, SHLD, XCHG, XTHL, SPHL, PCHL,
\* INX, DCX, PUSH, POP B/D/H, IN, OUT, CMA, every jump, call, return and RST,
\* NOP, EI, DI, RIM, SIM and HLT leave all five flags unchanged; DAD, RLC,
\* RRC, RAL, RAR, STC and CMC change no flag other than Carry.
FlagsFrame ==
    [][(StepCalled /\ ~cpu.halted) =>
          /\ Fetched \in NonFlagOpcodes => cpu'.flags = cpu.flags
          /\ Fetched \in CarryOnlyOpcodes =>
                \A f \in {"S", "Z", "AC", "P"} : cpu'.flags[f] = cpu.flags[f]]_vars

\* DAD B has run on HL = 0xFFFF, BC = 0x0001 with Carry clear and the other
\* four flags set: HL is 0x0000, Carry is set and the other four still are
FlagsFrameWitness ==
    /\ op.name = "step" /\ op.value = \h09 /\ steps = 1
    /\ cpuState.registers.value.H = \hFF /\ cpuState.registers.value.L = \hFF
    /\ cpuState.flags.value = [S |-> TRUE, Z |-> TRUE, AC |-> TRUE, P |-> TRUE, CY |-> FALSE]
    /\ cpu.registers.H = 0 /\ cpu.registers.L = 0
    /\ cpu.flags = [S |-> TRUE, Z |-> TRUE, AC |-> TRUE, P |-> TRUE, CY |-> TRUE]

\* the length in bytes of the instruction with this opcode: 3 for LXI, STA,
\* LDA, SHLD, LHLD, jumps and calls, 2 for MVI, the immediate arithmetic and
\* logical instructions, IN and OUT, 1 otherwise
InstructionLength(opcode) ==
    IF opcode \in {\h01, \h11, \h21, \h31, \h32, \h3A, \h22, \h2A, \hC3, \hCD}
                    \cup JumpOpcodes \cup CallOpcodes
    THEN 3
    ELSE IF opcode \in {\h06 + 8 * r : r \in 0 .. 7}
                         \cup {\hC6, \hCE, \hD6, \hDE, \hE6, \hEE, \hF6, \hFE, \hDB, \hD3}
    THEN 2
    ELSE 1

\* the instruction fetched transfers control: JMP, CALL, RET, PCHL, RST, or a
\* conditional jump, call or return whose condition holds
TransfersControl ==
    \/ Fetched \in {\hC3, \hCD, \hC9, \hE9} \cup RstOpcodes
    \/ /\ Fetched \in JumpOpcodes \cup CallOpcodes \cup ReturnOpcodes
       /\ Tested(Fetched, cpu.flags)

\* C30: every instruction that is not a taken jump, call, return, RST or PCHL
\* leaves PC at (p + length) mod 65536; LXI, MVI, LDA and STA use as operand
\* exactly the bytes at p+1 (and p+2).
PcAdvancesByLength ==
    [][(StepCalled /\ ~cpu.halted /\ Fetched \in instructionSet \cup {\h20, \h30}) =>
          LET p == cpu.registers.PC
              d8 == ArrayGet(cpu.memory, (p + 1) % 65536)
              d16 == OperandWord(cpu, p)
          IN  /\ ~TransfersControl =>
                    cpu'.registers.PC = (p + InstructionLength(Fetched)) % 65536
              /\ Fetched = \h01 => cpu'.registers.B = d16 \div 256 /\ cpu'.registers.C = d16 % 256
              /\ Fetched = \h31 => cpu'.registers.SP = d16
              /\ Fetched = \h3E => cpu'.registers.A = d8
              /\ Fetched = \h06 => cpu'.registers.B = d8
              /\ Fetched = \h3A => cpu'.registers.A = ArrayGet(cpu.memory, d16)
              /\ Fetched = \h32 => ArrayGet(cpu'.memory, d16) = cpu.registers.A]_vars

(***************************************************************************)
(* Subtraction: SUB B, SBB B, SUI d8, SBI d8, CMP B, CPI d8 on accumulator *)
(* a, operand b and Carry cy.  SBB B runs over every pair of bytes.        *)
(***************************************************************************)
SubOpcodes == {\h90, \h98, \hD6, \hDE, \hB8, \hFE}

InitSub ==
    \E opcode \in SubOpcodes, a \in 0 .. 255, cy \in BOOLEAN :
        \E b \in (IF opcode = \h98 THEN 0 .. 255 ELSE EdgeBytes) :
            InitPrepared(Prepared(0, <<opcode, IF opcode \in {\hD6, \hDE, \hFE} THEN b ELSE \h76>>,
                                  Registers([A |-> a, B |-> b]), Flags([CY |-> cy])))

SpecSub == InitSub /\ [][Step]_vars

\* C31: the 8-bit subtract of SUB, SBB, SUI, SBI, CMP and CPI returns
\* (a-b-c) mod 256 (stored in A except by CMP and CPI), sets Carry iff
\* a < b+c, Auxiliary-Carry iff (a mod 16) < (b mod 16)+c, Zero iff the result
\* is 0, Sign iff bit 7 of it is set, Parity iff it has an even number of set
\* bits.
SubResultAndFlags ==
    [][(StepCalled /\ ~cpu.halted /\ Fetched \in SubOpcodes) =>
          LET a == cpu.registers.A
              b == IF Fetched \in {\hD6, \hDE, \hFE} THEN readByte(cpu, FetchedPC)
                   ELSE cpu.registers.B
              c == IF Fetched \in {\h98, \hDE} /\ cpu.flags.CY THEN 1 ELSE 0
              result == (a - b - c) % 256
          IN  /\ cpu'.registers.A = IF Fetched \in {\hB8, \hFE} THEN a ELSE result
              /\ cpu'.flags.CY = (a < b + c)
              /\ cpu'.flags.AC = ((a % 16) < (b % 16) + c)
              /\ cpu'.flags.Z = (result = 0)
              /\ cpu'.flags.S = (result >= 128)
              /\ cpu'.flags.P = (BitCount(result) % 2 = 0)]_vars

\* SBB B has run on A = 0x10, B = 0x0F with Carry set: the result is 0x00 with
\* a borrow into bit 3 that only the borrow in causes, and no borrow out
SubWitness ==
    /\ op.name = "step" /\ op.value = \h98 /\ steps = 1
    /\ cpuState.registers.value.A = \h10 /\ cpu.registers.B = \h0F
    /\ cpuState.flags.value.CY
    /\ cpu.registers.A = 0 /\ cpu.flags.AC /\ ~cpu.flags.CY /\ cpu.flags.Z

\* ---- decimal addition ----

\* the bytes whose two nibbles are decimal digits
BcdBytes == {16 * tens + units : tens \in 0 .. 9, units \in 0 .. 9}

\* the number a packed-BCD byte encodes
dec(byte) == 10 * (byte \div 16) + (byte % 16)

\* ADD B, DAA on every pair of packed-BCD bytes
InitBcd ==
    \E a \in BcdBytes, b \in BcdBytes, cy \in BOOLEAN :
        InitPrepared(Prepared(0, <<\h80, \h27>>, Registers([A |-> a, B |-> b]),
                              Flags([CY |-> cy])))

SpecBcd == InitBcd /\ [][Step]_vars

\* C32: for packed-BCD bytes a and b, ADD with A = a and operand b followed
\* by DAA leaves A the packed-BCD encoding of (dec(a)+dec(b)) mod 100 and
\* Carry true iff dec(a)+dec(b) >= 100.
DecimalAddition ==
    [](steps = 2 =>
          LET sum == dec(cpuState.registers.value.A) + dec(cpu.registers.B)
          IN  /\ cpu.registers.A = 16 * ((sum % 100) \div 10) + (sum % 10)
              /\ cpu.flags.CY = (sum >= 100))

\* ADD B, DAA have run on 0x99 + 0x99: A is 0x98 and Carry is set
DecimalAdditionWitness ==
    /\ op.name = "step" /\ op.value = \h27 /\ op.address = 1 /\ steps = 2
    /\ cpuState.registers.value.A = \h99 /\ cpu.registers.B = \h99
    /\ cpu.registers.A = \h98 /\ cpu.flags.CY

\* ---- the top of the address space ----

\* LXI B, LXI SP, LDA, STA, LHLD, SHLD, JMP, CALL, then MVI A, ADI, NOP
WordOperandOpcodes == {\h01, \h31, \h3A, \h32, \h2A, \h22, \hC3, \hCD}

WrapPrograms ==
    {<<opcode, \h34, \h12>> : opcode \in WordOperandOpcodes}
    \cup {<<opcode, \hFF, \hFF>> : opcode \in WordOperandOpcodes}
    \cup {<<\h3E, \h77>>, <<\hC6, \h01>>, <<\h00, \h00>>}

\* a program that ends at or runs over 0xFFFF, or PUSH rp, POP rq with SP
\* at the bottom of the address space
InitWrap ==
    \/ \E p \in {\hFFFD, \hFFFE, \hFFFF}, program \in WrapPrograms :
          InitPrepared(Prepared(p, program,
                                Registers([PC |-> p, SP |-> \h2000, A |-> \h5A,
                                           H |-> \hA5, L |-> \hD7]),
                                Flags(<<>>)))
    \/ \E source \in {"B", "H"}, v \in StackValues, s \in {0, 1, 2, \hFFFF} :
          LET pair == PairAssignment(source, v)
          IN  InitPrepared(Prepared(StackProgramAddress, <<PushOpcode(source), PopOpcode("D")>>,
                                    [Registers(pair.registers) EXCEPT
                                        !.SP = s, !.PC = StackProgramAddress],
                                    Flags(<<>>)))

SpecWrap == InitWrap /\ [][Step]_vars

\* C33: address arithmetic wraps modulo 65536: an instruction fetched at or
\* next to 0xFFFF leaves PC counting on from 0x0000, a word whose first byte
\* is at 0xFFFF has its second byte at 0x0000, a push with SP = 0x0000 or
\* 0x0001 writes at 0xFFFF (and 0xFFFE), and the following pop returns the
\* pushed value and the original SP.
AddressesWrap ==
    /\ [][(StepCalled /\ ~cpu.halted) =>
            LET p == cpu.registers.PC
                d16 == OperandWord(cpu, p)
                s == cpu.registers.SP
            IN  /\ cpu'.registers.PC \in 0 .. 65535 /\ cpu'.registers.SP \in 0 .. 65535
                /\ DOMAIN cpu'.memory \subseteq 0 .. 65535
                /\ (Fetched \in WordOperandOpcodes \cup {\h3E, \hC6, \h00, \hC5, \hE5, \hD1}
                    /\ ~TransfersControl) =>
                      cpu'.registers.PC = (p + InstructionLength(Fetched)) % 65536
                /\ Fetched = \h01 =>
                      /\ cpu'.registers.C = ArrayGet(cpu.memory, (p + 1) % 65536)
                      /\ cpu'.registers.B = ArrayGet(cpu.memory, (p + 2) % 65536)
                /\ Fetched = \h31 => cpu'.registers.SP = d16
                /\ Fetched \in {\hC3, \hCD} => cpu'.registers.PC = d16
                /\ Fetched = \hCD => WordAt(cpu', (s - 2) % 65536) = (p + 3) % 65536
                /\ Fetched = \h3A => cpu'.registers.A = ArrayGet(cpu.memory, d16)
                /\ Fetched = \h32 => ArrayGet(cpu'.memory, d16) = cpu.registers.A
                /\ Fetched = \h2A =>
                      /\ cpu'.registers.L = ArrayGet(cpu.memory, d16)
                      /\ cpu'.registers.H = ArrayGet(cpu.memory, (d16 + 1) % 65536)
                /\ Fetched = \h22 =>
                      /\ ArrayGet(cpu'.memory, d16) = cpu.registers.L
                      /\ ArrayGet(cpu'.memory, (d16 + 1) % 65536) = cpu.registers.H
                /\ Fetched \in {\hC5, \hE5} =>
                      /\ cpu'.registers.SP = (s - 2) % 65536
                      /\ ArrayGet(cpu'.memory, (s - 1) % 65536) =
                            (IF Fetched = \hC5 THEN cpu.registers.B ELSE cpu.registers.H)
                      /\ ArrayGet(cpu'.memory, (s - 2) % 65536) =
                            (IF Fetched = \hC5 THEN cpu.registers.C ELSE cpu.registers.L)]_vars
    /\ []((steps = 2 /\ cpuState.registers.value.PC = StackProgramAddress) =>
            LET before == cpuState.registers.value
                pushedH == before.H # 0 \/ before.L # 0
            IN  /\ cpu.registers.SP = before.SP
                /\ cpu.registers.D = (IF pushedH THEN before.H ELSE before.B)
                /\ cpu.registers.E = (IF pushedH THEN before.L ELSE before.C))

\* LXI B,0x1234 fetched at 0xFFFE: C came from 0xFFFF, B from 0x0000, PC is 1
AddressesWrapWitness ==
    /\ op.name = "step" /\ op.value = \h01 /\ op.address = \hFFFE /\ steps = 1
    /\ cpu.registers.B = \h12 /\ cpu.registers.C = \h34 /\ cpu.registers.PC = 1
    /\ ArrayGet(cpu.memory, \hFFFF) = \h34 /\ ArrayGet(cpu.memory, 0) = \h12

\* PUSH B, POP D have run with SP = 0x0001 and BC = 0xA5D7: the bytes are at
\* 0x0000 and 0xFFFF, DE is 0xA5D7 and SP is 0x0001 again
PushWrapWitness ==
    /\ op.name = "step" /\ op.value = \hD1 /\ steps = 2
    /\ cpu.registers.SP = 1 /\ cpu.registers.D = \hA5 /\ cpu.registers.E = \hD7
    /\ cpu.registers.B = \hA5 /\ cpu.registers.C = \hD7
    /\ ArrayGet(cpu.memory, 0) = \hA5 /\ ArrayGet(cpu.memory, \hFFFF) = \hD7

\* ---- PUSH PSW, POP PSW ----

\* PUSH PSW, POP PSW with every accumulator and every combination of flags
InitPswRoundTrip ==
    \E a \in 0 .. 255, s \in {\h0001, \h2000},
       flags \in [DOMAIN NewCPU8085.flags -> BOOLEAN] :
        InitPrepared(Prepared(StackProgramAddress, <<\hF5, \hF1>>,
                              Registers([PC |-> StackProgramAddress, SP |-> s, A |-> a]),
                              flags))

SpecPswRoundTrip == InitPswRoundTrip /\ [][Step]_vars

\* C34: PUSH PSW immediately followed by POP PSW restores A, all five flags
\* and SP to their values before the PUSH, for every A and every combination
\* of flags.
PswRoundTrip ==
    [](steps = 2 =>
          /\ cpu.registers = [cpuState.registers.value EXCEPT
                                 !.PC = (StackProgramAddress + 2) % 65536]
          /\ cpu.flags = cpuState.flags.value
          /\ ~cpu.halted)

\* PUSH PSW, POP PSW have run with A = 0xFF, all flags set and SP = 0x0001:
\* the status byte 0xD7 is at 0xFFFF, A at 0x0000, and all are as before
PswRoundTripWitness ==
    /\ op.name = "step" /\ op.value = \hF1 /\ steps = 2
    /\ cpu.registers.A = \hFF /\ cpu.registers.SP = 1
    /\ cpu.flags = [S |-> TRUE, Z |-> TRUE, AC |-> TRUE, P |-> TRUE, CY |-> TRUE]
    /\ ArrayGet(cpu.memory, \hFFFF) = \hD7 /\ ArrayGet(cpu.memory, 0) = \hFF

\* ---- comparison ----

CompareOpcodes == (\hB8 .. \hBF) \cup {\hFE}

\* CMP r or CPI with a in the accumulator and b in the operand
InitCompare ==
    \E opcode \in CompareOpcodes, a \in LogicalBytes, b \in LogicalBytes, cy \in BOOLEAN :
        LET r == RegNames[(opcode % 8) + 1]
            immediate == opcode = \hFE
            program == loadProgram(NewCPU8085, 0, <<opcode, IF immediate THEN b ELSE \h76>>)
            prepared ==
                IF immediate THEN [program EXCEPT !.registers = Registers([A |-> a])]
                ELSE IF r = "M" THEN
                    [writeByte(program, \h3000, b) EXCEPT
                        !.registers = Registers([A |-> a, H |-> \h30])]
                ELSE IF r = "A" THEN [program EXCEPT !.registers = Registers([A |-> a])]
                ELSE [program EXCEPT !.registers = Registers([x \in {"A", r} |->
                                                        IF x = "A" THEN a ELSE b])]
        IN  InitPrepared([prepared EXCEPT !.flags = Flags([CY |-> cy, Z |-> cy])])

SpecCompare == InitCompare /\ [][Step]_vars

\* C35: CMP r (r in B C D E H L M A) and CPI leave A and every other register
\* except PC unchanged, leave halted false, and set Zero iff A equals the
\* operand and Carry iff A is less than the operand.
CompareInstructions ==
    [][(StepCalled /\ ~cpu.halted /\ Fetched \in CompareOpcodes) =>
          LET p == cpu.registers.PC
              a == cpu.registers.A
              immediate == Fetched = \hFE
              b == IF immediate THEN ArrayGet(cpu.memory, (p + 1) % 65536)
                   ELSE OperandOf(cpu, RegNames[(Fetched % 8) + 1])
          IN  /\ cpu'.registers = [cpu.registers EXCEPT
                                      !.PC = (p + (IF immediate THEN 2 ELSE 1)) % 65536]
              /\ cpu'.memory = cpu.memory
              /\ ~cpu'.halted
              /\ cpu'.flags.Z = (a = b)
              /\ cpu'.flags.CY = (a < b)]_vars

\* ---- the keypad during a run ----

\* C36: while isRunning is true a hex key, EXAM, STORE, NEXT, PREV, GO or
\* EXEC STEP changes neither the processor nor the interaction mode nor the
\* input buffer; EXEC STEP calls step() exactly once when the processor is
\* neither halted nor running and not at all otherwise.
KeypadIgnoredWhileRunning ==
    /\ [][(isRunning /\ op'.name \in {"handleKeyPress", "handleExecuteStep"}) =>
            /\ cpu' = cpu
            /\ mode' = mode
            /\ inputBuffer' = inputBuffer
            /\ steps' = steps]_vars
    /\ [][op'.name = "handleExecuteStep" =>
            IF ~cpu.halted /\ ~isRunning
            THEN StepCalled
            ELSE steps' = steps /\ cpu' = cpu]_vars

\* EXEC STEP has been pressed during a run that had executed one instruction:
\* nothing was stepped
KeypadIgnoredWitness ==
    /\ op.name = "handleExecuteStep" /\ isRunning /\ ~cpu.halted /\ steps = 1
    /\ runIntervalRef = "live"

\* ---- RESET during a run ----

\* the registers, flags and halted of a processor
Processor(this) == <<this.registers, this.flags, this.halted>>

\* C37: RESET, pressed at any point of a run, cancels the timer and sets
\* isRunning false and leaves the processor in its reset state; from then on,
\* while no run is active, only EXEC STEP calls step(), only EXEC STEP, a
\* completed GO or another RESET changes registers, flags or halted, and only
\* a completed GO starts a run.
ResetStopsRun ==
    /\ [][op'.name = "reset" =>
            /\ ~isRunning'
            /\ runIntervalRef' # "live"
            /\ cpu'.registers = [A |-> 0, B |-> 0, C |-> 0, D |-> 0, E |-> 0, H |-> 0,
                                 L |-> 0, SP |-> 65534, PC |-> 0]
            /\ cpu'.flags = [S |-> FALSE, Z |-> TRUE, AC |-> FALSE, P |-> TRUE, CY |-> FALSE]
            /\ ~cpu'.halted]_vars
    /\ [](~isRunning => runIntervalRef # "live")
    /\ [][~isRunning =>
            /\ StepCalled => op'.name = "handleExecuteStep"
            /\ Processor(cpu') # Processor(cpu) =>
                  \/ op'.name \in {"handleExecuteStep", "reset"}
                  \/ op'.name = "handleKeyPress" /\ isRunning'
            /\ isRunning' => (op'.name = "handleKeyPress" /\ mode = "GO_ADDR_INPUT"
                              /\ Len(inputBuffer) = 3)]_vars

\* RESET has been pressed during a run that had executed one instruction; the
\* timer is cancelled
ResetStopsRunWitness ==
    /\ op.name = "reset" /\ op.value = 2 /\ op.address # 0 /\ steps = 1
    /\ runIntervalRef = "cleared" /\ ~isRunning
    /\ cpu.registers.PC = 0

\* ---- the keypad and memory ----

\* the value of a buffer of one or two hex digits
HexValue(buffer) ==
    IF Len(buffer) = 1 THEN DigitOf(buffer[1])
    ELSE 16 * DigitOf(buffer[1]) + DigitOf(buffer[2])

\* C38: a key press calls writeByte only for STORE in EXAM_MEM_DATA_VIEW with
\* a non-empty input buffer, and then writes exactly the buffer's hex value at
\* the current examine address; every other key press leaves memory
\* unchanged.
KeypadWritesOnlyOnStore ==
    [][op'.name = "handleKeyPress" =>
          IF writes' # writes
          THEN /\ ~isRunning
               /\ mode = "EXAM_MEM_DATA_VIEW"
               /\ Len(inputBuffer) \in {1, 2}
               /\ mode' = mode /\ inputBuffer' = <<>>
               /\ currentExamAddress' = currentExamAddress
               /\ \A x \in DOMAIN cpu.memory \cup DOMAIN cpu'.memory \cup {currentExamAddress} :
                     ArrayGet(cpu'.memory, x) =
                        (IF x = currentExamAddress THEN HexValue(inputBuffer)
                         ELSE ArrayGet(cpu.memory, x))
          ELSE cpu'.memory = cpu.memory]_vars

\* STORE has been pressed with 76 on the display at address 0x0001
KeypadStoreWitness ==
    /\ op.name = "handleKeyPress" /\ writes = 1 /\ steps = 0
    /\ mode = "EXAM_MEM_DATA_VIEW" /\ inputBuffer = <<>> /\ currentExamAddress = 1
    /\ cpu.memory = ArrayPut(EmptyArray, 1, \h76)

\* ---- the input buffer ----

====
